---- MODULE Spec2Model ----
(***************************************************************************)
(* A model of libane (src/libane/ane.c): buffer objects, the channel set   *)
(* of a job instance, the channel accessors and the tiling transform.      *)
(*                                                                         *)
(* Memory is modelled in units of sizeof(uint16_t) in the tiling part      *)
(* (every offset and length of ane_tile/ane_untile is a multiple of it).   *)
(***************************************************************************)
EXTENDS Integers, Sequences, FiniteSets, TLC

VARIABLES
    \* ---- tiling transform (ane_tile / ane_untile) ----
    shape,      \* the (N, C, H, W, P, R) arguments
    data,       \* the caller's dense tensor X handed to ane_tile
    tile,       \* the tiled buffer
    tile0,      \* the tiled buffer as it was before ane_tile
    tileB,      \* a second tiled buffer, equal to tile except in padding
    out,        \* the dense destination of ane_untile(tile)
    outB,       \* the dense destination of ane_untile(tileB)
    twr,        \* the indices written by the last ane_tile / ane_untile calls
    tpc,        \* position of the tiling scenario
    \* ---- the device (kernel side) and the process ----
    dev,        \* open descriptors, live buffer handles, live mappings, call log
    mem,        \* contents of the live mappings, by address
    \* ---- buffer objects and the channel set ----
    bo,         \* one struct ane_bo, driven through ane_bo_init / ane_bo_free
    anec,       \* the model descriptor (struct anec)
    mdata,      \* the model payload (model->data)
    nn,         \* the job instance (struct ane_nn): chans[], btsp_chan, fd
    cret,       \* the last call and what it returned
    cpc,        \* position of the buffer / channel / job scenario
    \* ---- the channel accessors ----
    check,      \* whether the library is built with LIBANE_INDEX_CHECK
    acc,        \* the last accessor call: its resolved channel and what it touched
    \* ---- the process: heap, device nodes, model file ----
    heap,       \* the live heap objects and the log of malloc / free calls
    nodes,      \* what /dev/accel/accel<i> is, for the first nodes
    file,       \* the model file at the path handed to __ane_init
    model,      \* the caller's struct ane_model handed to __ane_init_from_model
    jret        \* the last construction / destruction call and what it returned

tvars == <<shape, data, tile, tile0, tileB, out, outB, twr, tpc>>

cvars == <<dev, mem, bo, anec, mdata, nn, cret, cpc>>

avars == <<check, acc>>

jvars == <<heap, nodes, file, model, jret>>

vars == <<shape, data, tile, tile0, tileB, out, outB, twr, tpc,
          dev, mem, bo, anec, mdata, nn, cret, cpc,
          check, acc, heap, nodes, file, model, jret>>

Max(a, b) == IF a >= b THEN a ELSE b

Min(a, b) == IF a <= b THEN a ELSE b

(***************************************************************************)
(* Bounds of the tiling inputs.                                            *)
(***************************************************************************)
MaxNC == 2
MaxH == 2
MaxW == 2
MaxR == 4
MaxP == 12

\* sizeof(uint16_t)
ElemSize == 2

(***************************************************************************)
(* ane_tile / ane_untile                                                   *)
(***************************************************************************)
\* const uint64_t new_H = P / R;
new_H(s) == s.P \div s.R

\* const uint64_t new_W = R / sizeof(uint16_t);
new_W(s) == s.R \div ElemSize

\* stride = W * sizeof(uint16_t), in elements; the length of every memcpy
tile_stride(s) == s.W

\* a copy one element too long wherever the padded row has room for it
untile_stride_long(s) == s.W + (IF new_W(s) > s.W THEN 1 ELSE 0)

untile_stride(s) == s.W

\* the source and destination offsets of ane_tile, in elements
tile_src(s, n, c, h) == n * (s.C * s.H * s.W) + c * (s.H * s.W) + h * s.W

\* the tiled row placed at the dense (packed) offset
tile_dst_packed(s, n, c, h) == n * (s.C * s.H * s.W) + c * (s.H * s.W) + h * s.W

tile_dst(s, n, c, h) ==
    n * (s.C * new_H(s) * new_W(s)) + c * (new_H(s) * new_W(s)) + h * new_W(s)

\* the tiled row read at the dense row stride
untile_src_packed(s, n, c, h) ==
    n * (s.C * new_H(s) * new_W(s)) + c * (new_H(s) * new_W(s)) + h * s.W

\* the source and destination offsets of ane_untile, in elements
untile_src(s, n, c, h) ==
    n * (s.C * new_H(s) * new_W(s)) + c * (new_H(s) * new_W(s)) + h * new_W(s)

untile_dst(s, n, c, h) == n * (s.C * s.H * s.W) + c * (s.H * s.W) + h * s.W

\* what a read outside the modelled part of a buffer yields
Undef == 0 - 1

\* memcpy(dst + d, src + o, len) on two distinct buffers
memcpy(dst, d, src, o, len) ==
    [i \in DOMAIN dst |->
        IF i >= d /\ i < d + len
        THEN (IF o + (i - d) \in DOMAIN src THEN src[o + (i - d)] ELSE Undef)
        ELSE dst[i]]

\* memset(dst, v, len)
memset(dst, v, len) == [i \in DOMAIN dst |-> IF i < len THEN v ELSE dst[i]]

\* the k-th iteration of the n, c, h loop nest
LoopN(s, k) == k \div (s.C * s.H)

LoopC(s, k) == (k \div s.H) % s.C

LoopH(s, k) == k % s.H

RECURSIVE tile_loop(_, _, _, _)
tile_loop(s, src, r, k) ==
    IF k >= s.N * s.C * s.H THEN r
    ELSE LET d == tile_dst(s, LoopN(s, k), LoopC(s, k), LoopH(s, k))
             o == tile_src(s, LoopN(s, k), LoopC(s, k), LoopH(s, k))
         IN  tile_loop(s, src,
                 [mem |-> memcpy(r.mem, d, src, o, tile_stride(s)),
                  wr  |-> r.wr \cup (d..(d + tile_stride(s) - 1))],
                 k + 1)

\* ane_tile(data, tile, N, C, H, W, P, R): the tiled buffer and what was written
ane_tile(src, dst, s) == tile_loop(s, src, [mem |-> dst, wr |-> {}], 0)

RECURSIVE untile_loop(_, _, _, _)
untile_loop(s, src, r, k) ==
    IF k >= s.N * s.C * s.H THEN r
    ELSE LET o == untile_src(s, LoopN(s, k), LoopC(s, k), LoopH(s, k))
             d == untile_dst(s, LoopN(s, k), LoopC(s, k), LoopH(s, k))
         IN  untile_loop(s, src,
                 [mem |-> memcpy(r.mem, d, src, o, untile_stride(s)),
                  wr  |-> r.wr \cup (d..(d + untile_stride(s) - 1)),
                  rd  |-> r.rd \cup (o..(o + untile_stride(s) - 1))],
                 k + 1)

\* ane_untile(data, tile, N, C, H, W, P, R): the dense buffer, what was
\* written in it and what was read of the tiled buffer
ane_untile(dst, src, s) ==
    untile_loop(s, src,
        [mem |-> memset(dst, 0, s.N * s.C * s.H * s.W),
         wr  |-> 0..(s.N * s.C * s.H * s.W - 1),
         rd  |-> {}],
        0)

(***************************************************************************)
(* The buffers of the tiling scenario.  The functions take bare pointers:  *)
(* the tiled buffer is as long as the padded planes or as the farthest     *)
(* element the calls touch, whichever is longer, and the dense destination *)
(* has one guard element after its N*C*H*W elements.                       *)
(***************************************************************************)
DenseLen(s) == s.N * s.C * s.H * s.W

TileRegion(s) == s.N * s.C * new_H(s) * new_W(s)

TileSpan(s) == (s.N * s.C - 1) * new_H(s) * new_W(s) + (s.H - 1) * new_W(s) + s.W

TileBufLen(s) == Max(TileRegion(s), TileSpan(s))

\* the tiled positions of the logical elements (n, c, h < H, w < W)
PlaneBase(s, n, c) == (n * s.C + c) * (new_H(s) * new_W(s))

Logical(s) ==
    {PlaneBase(s, n, c) + h * new_W(s) + w :
        n \in 0..(s.N - 1), c \in 0..(s.C - 1), h \in 0..(s.H - 1), w \in 0..(s.W - 1)}

\* the tiled positions in padding rows and padding columns
Padding(s) == (0..(TileBufLen(s) - 1)) \ Logical(s)

\* the padding of the rows h >= H, and the padding after the W elements of
\* the rows h < H
PaddingRows(s) ==
    {i \in Padding(s) : \A n \in 0..(s.N - 1), c \in 0..(s.C - 1) :
        ~(i >= PlaneBase(s, n, c) /\ i < PlaneBase(s, n, c) + s.H * new_W(s))}

PaddingCols(s) == Padding(s) \ PaddingRows(s)

Shapes ==
    [N : 1..MaxNC, C : 1..MaxNC, H : 1..MaxH, W : 1..MaxW, P : 1..MaxP, R : 1..MaxR]

\* the shapes whose logical rows and columns fit the padded plane
Fits(s) == s.H <= new_H(s) /\ s.W <= new_W(s)

\* dense tensors: all distinct elements, or one of two values per element
Tensors(s) ==
    {[i \in 0..(DenseLen(s) - 1) |-> i + 1]}
        \cup {[i \in 0..(DenseLen(s) - 1) |-> 1 + (i % 2)]}

\* prior contents of a buffer of the given length
Fills(len) == {[i \in 0..(len - 1) |-> 0], [i \in 0..(len - 1) |-> 100 + i]}

\* the other parts of the model at rest
AccIdle == check = FALSE /\ acc = "none"

JobIdle ==
    /\ heap = "none" /\ nodes = "none" /\ file = "none" /\ model = "none"
    /\ jret = "none"

ChanIdle ==
    /\ dev = [fds |-> {}, bos |-> {}, maps |-> {}, log |-> <<>>]
    /\ mem = <<>>
    /\ bo = "none"
    /\ anec = "none"
    /\ mdata = "none"
    /\ nn = "none"
    /\ cret = "none"
    /\ cpc = "idle"

InitTile ==
    /\ shape \in Shapes
    /\ data \in Tensors(shape)
    /\ tile \in Fills(TileBufLen(shape))
    /\ tile0 = tile
    /\ tileB = tile
    /\ out = [i \in 0..DenseLen(shape) |-> 200 + i]
    /\ outB = [i \in 0..DenseLen(shape) |-> 300 + i]
    /\ twr = [tile |-> {}, out |-> {}, outB |-> {}, rd |-> {}, rdB |-> {}]
    /\ tpc = "start"
    /\ ChanIdle /\ AccIdle /\ JobIdle

\* ane_tile(data, tile, ...)
Tile ==
    /\ tpc = "start"
    /\ LET r == ane_tile(data, tile, shape)
       IN  /\ tile' = r.mem
           /\ twr' = [twr EXCEPT !.tile = r.wr]
    /\ tile0' = tile
    /\ tpc' = "tiled"
    /\ UNCHANGED <<shape, data, tileB, out, outB>>
    /\ UNCHANGED <<cvars, avars, jvars>>

\* a second tiled buffer: the same logical elements, other padding (as the
\* device or another caller may leave it)
Scribble ==
    /\ tpc = "tiled"
    /\ \E S \in {{}, Padding(shape), PaddingRows(shape), PaddingCols(shape)} :
          tileB' = [i \in DOMAIN tile |-> IF i \in S THEN 900 + i ELSE tile[i]]
    /\ tpc' = "scribbled"
    /\ UNCHANGED <<shape, data, tile, tile0, out, outB, twr>>
    /\ UNCHANGED <<cvars, avars, jvars>>

\* ane_untile(out, tile, ...)
Untile ==
    /\ tpc = "scribbled"
    /\ LET r == ane_untile(out, tile, shape)
       IN  /\ out' = r.mem
           /\ twr' = [twr EXCEPT !.out = r.wr, !.rd = r.rd]
    /\ tpc' = "untiled"
    /\ UNCHANGED <<shape, data, tile, tile0, tileB, outB>>
    /\ UNCHANGED <<cvars, avars, jvars>>

\* ane_untile(outB, tileB, ...)
UntileB ==
    /\ tpc = "untiled"
    /\ LET r == ane_untile(outB, tileB, shape)
       IN  /\ outB' = r.mem
           /\ twr' = [twr EXCEPT !.outB = r.wr, !.rdB = r.rd]
    /\ tpc' = "done"
    /\ UNCHANGED <<shape, data, tile, tile0, tileB, out>>
    /\ UNCHANGED <<cvars, avars, jvars>>

NextTile == Tile \/ Scribble \/ Untile \/ UntileB

SpecTile == InitTile /\ [][NextTile]_vars

(***************************************************************************)
(* Claims about the tiling transform (checked under SpecTile).             *)
(***************************************************************************)
\* R a multiple of the element size and P a multiple of R
Multiples(s) == s.R % ElemSize = 0 /\ s.P % s.R = 0

RoundTrip == \A i \in 0..(DenseLen(shape) - 1) : out[i] = data[i]

\* C4 as stated: for every (N,C,H,W,P,R) with R a multiple of 2 and P a
\* multiple of R, ane_untile of ane_tile(X) is X.
C4_RoundTripAnyShape ==
    (tpc \in {"untiled", "done"} /\ Multiples(shape)) => RoundTrip

\* C4 amended: for every (N,C,H,W,P,R) with R > 0 a multiple of 2, P a multiple
\* of R, H <= P/R and W <= R/2, ane_untile of ane_tile(X) is X.
C4_RoundTripFitting ==
    (tpc \in {"untiled", "done"} /\ Multiples(shape) /\ Fits(shape)) => RoundTrip

C4_Witness ==
    /\ tpc = "untiled"
    /\ Multiples(shape) /\ Fits(shape)
    /\ shape.N * shape.C > 1 /\ shape.H > 1
    /\ shape.H < new_H(shape) /\ shape.W < new_W(shape)
    /\ data[0] # data[1]
    /\ tile0[0] # 0
    /\ RoundTrip

\* what C5 says of one call of ane_tile: the elements written are those of the
\* rows h < H, W elements each, inside the padded planes, and padding keeps
\* its value
TileFrame ==
    /\ twr.tile = Logical(shape)
    /\ \A i \in twr.tile : i < TileRegion(shape)
    /\ \A n \in 0..(shape.N - 1), c \in 0..(shape.C - 1), h \in 0..(shape.H - 1) :
          /\ PlaneBase(shape, n, c) + h * new_W(shape) + shape.W
                <= PlaneBase(shape, n, c) + new_H(shape) * new_W(shape)
          /\ \A w \in 0..(shape.W - 1) :
                tile[PlaneBase(shape, n, c) + h * new_W(shape) + w]
                    = data[((n * shape.C + c) * shape.H + h) * shape.W + w]
    /\ \A i \in Padding(shape) : tile[i] = tile0[i]

\* C5 as stated: ane_tile writes only the W elements of the rows h < H of each
\* plane, never outside the padded planes, and padding keeps its value.
C5_TileFrameAnyShape == (tpc = "tiled" /\ Multiples(shape)) => TileFrame

\* C5 amended: the same, for the shapes with H <= P/R and W <= R/2.
C5_TileFrameFitting == (tpc = "tiled" /\ Fits(shape)) => TileFrame

C5_Witness ==
    /\ tpc = "tiled"
    /\ Fits(shape)
    /\ shape.N * shape.C > 1
    /\ shape.H < new_H(shape) /\ shape.W < new_W(shape)
    /\ tile0[0] # 0
    /\ \E i \in Padding(shape) : tile[i] = 100 + i
    /\ TileFrame

AgreeLogical == \A i \in Logical(shape) : tile[i] = tileB[i]

\* C6: two tiled buffers that agree on every logical position give the same
\* dense output whatever their padding and whatever the destinations held:
\* exactly N*C*H*W elements, each the tiled element of its logical position.
C6_NoPaddingLeak ==
    (tpc = "done" /\ AgreeLogical) =>
        /\ \A i \in 0..(DenseLen(shape) - 1) : out[i] = outB[i]
        /\ \A n \in 0..(shape.N - 1), c \in 0..(shape.C - 1),
              h \in 0..(shape.H - 1), w \in 0..(shape.W - 1) :
              out[((n * shape.C + c) * shape.H + h) * shape.W + w]
                  = tile[PlaneBase(shape, n, c) + h * new_W(shape) + w]
        /\ twr.out = 0..(DenseLen(shape) - 1)
        /\ twr.outB = 0..(DenseLen(shape) - 1)
        /\ out[DenseLen(shape)] = 200 + DenseLen(shape)
        /\ outB[DenseLen(shape)] = 300 + DenseLen(shape)
        /\ twr.rd \subseteq Logical(shape)
        /\ twr.rdB \subseteq Logical(shape)

C6_Witness ==
    /\ tpc = "done"
    /\ AgreeLogical
    /\ Fits(shape) /\ shape.H < new_H(shape) /\ shape.W < new_W(shape)
    /\ \A i \in Padding(shape) : tileB[i] # tile[i]
    /\ out[0] # 0
    /\ out[DenseLen(shape)] = 200 + DenseLen(shape)
    /\ \A i \in 0..(DenseLen(shape) - 1) : out[i] = outB[i]

(***************************************************************************)
(* The device as the library sees it (section 6 of the specification):     *)
(* descriptors, buffer handles handed out per descriptor, shared mappings, *)
(* and the log of the requests made.  A world w is [dev, mem].             *)
(***************************************************************************)
NULL == 0

\* mmap's MAP_FAILED, ((void *) -1)
MAP_FAILED == 0 - 1

\* <errno.h>
EINVAL == 22

\* #define TILE_SHIFT 0xEUL, #define TILE_SIZE 0x4000UL
TILE_SHIFT == 14

TILE_SIZE == 16384

\* ANE_TILE_COUNT of ane.h: the channels of a job instance, 0..63
ANE_TILE_COUNT == 64

\* ANE_FIFO_NID of ane.h: the reserved FIFO node identifier
ANE_FIFO_NID == 64

RECURSIVE Pow2(_)
Pow2(n) == IF n = 0 THEN 1 ELSE 2 * Pow2(n - 1)

\* the least positive number not in S
LowestFree(S) == CHOOSE n \in 1..(Cardinality(S) + 1) :
                    n \notin S /\ \A m \in 1..(n - 1) : m \in S

Logged(w, e) == [w EXCEPT !.dev.log = Append(@, e)]

\* a fresh shared mapping reads as zero; w0 is its first four bytes, src and
\* len tell what was last copied to its start and how many bytes of it
FreshContent == [w0 |-> <<0, 0, 0, 0>>, src |-> "zero", len |-> 0]

\* ioctl(fd, DRM_IOCTL_ANE_BO_INIT, &args): a new handle and its map offset
drm_bo_init(w, fd, size, oc) ==
    IF oc = "alloc_fail" \/ fd \notin w.dev.fds
    THEN [w |-> Logged(w, [op |-> "bo_init", fd |-> fd, id |-> 0, ok |-> FALSE]),
          ret |-> 0 - 1, handle |-> 0, offset |-> 0]
    ELSE LET h == LowestFree({b.handle : b \in {x \in w.dev.bos : x.fd = fd}})
             w1 == [w EXCEPT !.dev.bos = @ \cup {[fd |-> fd, handle |-> h, size |-> size]}]
         IN  [w |-> Logged(w1, [op |-> "bo_init", fd |-> fd, id |-> h, ok |-> TRUE]),
              ret |-> 0, handle |-> h, offset |-> h * TILE_SIZE]

\* ioctl(fd, DRM_IOCTL_ANE_BO_FREE, &args)
drm_bo_free(w, fd, handle) ==
    LET live == {x \in w.dev.bos : x.fd = fd /\ x.handle = handle}
    IN  IF live = {}
        THEN [w |-> Logged(w, [op |-> "bo_free", fd |-> fd, id |-> handle, ok |-> FALSE]),
              ret |-> 0 - 1]
        ELSE [w |-> Logged([w EXCEPT !.dev.bos = @ \ live],
                           [op |-> "bo_free", fd |-> fd, id |-> handle, ok |-> TRUE]),
              ret |-> 0]

\* mmap(0, size, PROT_READ | PROT_WRITE, MAP_SHARED, fd, offset)
sys_mmap(w, fd, size, offset, oc) ==
    LET live == {x \in w.dev.bos : x.fd = fd /\ x.handle * TILE_SIZE = offset}
    IN  IF oc = "map_fail" \/ live = {} \/ size = 0
        THEN [w |-> Logged(w, [op |-> "mmap", fd |-> fd, id |-> 0, ok |-> FALSE]),
              addr |-> MAP_FAILED]
        ELSE LET a == LowestFree({m.addr : m \in w.dev.maps})
                 h == (CHOOSE x \in live : TRUE).handle
                 w1 == [w EXCEPT
                          !.dev.maps = @ \cup {[addr |-> a, fd |-> fd, handle |-> h,
                                                size |-> size]},
                          !.mem = [x \in DOMAIN w.mem \cup {a} |->
                                      IF x = a THEN FreshContent ELSE w.mem[x]]]
             IN  [w |-> Logged(w1, [op |-> "mmap", fd |-> fd, id |-> a, ok |-> TRUE]),
                  addr |-> a]

\* munmap(addr, size)
sys_munmap(w, addr, size) ==
    LET live == {m \in w.dev.maps : m.addr = addr}
    IN  IF live = {}
        THEN Logged(w, [op |-> "munmap", fd |-> 0, id |-> addr, ok |-> FALSE])
        ELSE Logged([w EXCEPT !.dev.maps = @ \ live,
                              !.mem = [x \in DOMAIN w.mem \ {addr} |-> w.mem[x]]],
                    [op |-> "munmap", fd |-> (CHOOSE m \in live : TRUE).fd,
                     id |-> addr, ok |-> TRUE])

(***************************************************************************)
(* Buffer objects: bo_init, bo_free, bo_mmap, ane_bo_init, ane_bo_free     *)
(***************************************************************************)
\* a zeroed struct ane_bo (ane_zmalloc of the job instance)
ZeroBo == [map |-> NULL, size |-> 0, handle |-> 0, offset |-> 0]

\* bo->handle = args.handle; bo->offset = args.offset; return err;
bo_init_ret(b, r) ==
    [w |-> r.w, bo |-> [b EXCEPT !.handle = r.handle, !.offset = r.offset],
     err |-> r.ret]

bo_init(w, fd, b, oc) == bo_init_ret(b, drm_bo_init(w, fd, b.size, oc))

bo_free_ret(r) == [w |-> r.w, err |-> r.ret]

bo_free(w, fd, b) == bo_free_ret(drm_bo_free(w, fd, b.handle))

\* if (bo->map == MAP_FAILED) { bo->map = NULL; return -EINVAL; } return 0;
bo_mmap_ret(b, r) ==
    IF r.addr = MAP_FAILED
    THEN [w |-> r.w, bo |-> [b EXCEPT !.map = NULL], err |-> 0 - EINVAL]
    ELSE [w |-> r.w, bo |-> [b EXCEPT !.map = r.addr], err |-> 0]

bo_mmap(w, fd, b, oc) == bo_mmap_ret(b, sys_mmap(w, fd, b.size, b.offset, oc))

\* the error label of ane_bo_init: bo->handle = 0; bo->offset = 0; return err;
bo_init_error(w, b, err) ==
    [w |-> w, bo |-> [b EXCEPT !.handle = 0, !.offset = 0], err |-> err]

\* a failed map whose device buffer is not freed
bo_init_mapped_leak(m, fd) ==
    IF m.err < 0 THEN bo_init_error(m.w, m.bo, m.err)
    ELSE [w |-> m.w, bo |-> m.bo, err |-> 0]

\* ane_bo_init after bo_mmap returned m
bo_init_mapped(m, fd) ==
    IF m.err < 0 THEN bo_init_error(bo_free(m.w, fd, m.bo).w, m.bo, m.err)
    ELSE [w |-> m.w, bo |-> m.bo, err |-> 0]

\* ane_bo_init after bo_init returned a
bo_init_allocated(a, fd, oc) ==
    IF a.err < 0 THEN bo_init_error(a.w, a.bo, a.err)
    ELSE bo_init_mapped(bo_mmap(a.w, fd, a.bo, oc), fd)

ane_bo_init(w, fd, b, oc) ==
    IF b.size = 0 THEN [w |-> w, bo |-> b, err |-> 0 - EINVAL]
    ELSE bo_init_allocated(bo_init(w, fd, b, oc), fd, oc)

\* the unmap without the free request
ane_bo_free_unmap_only(w, fd, b) ==
    IF b.map # NULL
    THEN [w |-> sys_munmap(w, b.map, b.size), bo |-> [b EXCEPT !.map = NULL]]
    ELSE [w |-> w, bo |-> [b EXCEPT !.map = NULL]]

ane_bo_free(w, fd, b) ==
    IF b.map # NULL
    THEN [w |-> bo_free(sys_munmap(w, b.map, b.size), fd, b).w,
          bo |-> [b EXCEPT !.map = NULL]]
    ELSE [w |-> w, bo |-> [b EXCEPT !.map = NULL]]

\* the tiling part of the model at rest
TileIdle ==
    /\ shape = "none" /\ data = "none" /\ tile = "none" /\ tile0 = "none"
    /\ tileB = "none" /\ out = "none" /\ outB = "none" /\ twr = "none"
    /\ tpc = "idle"

(***************************************************************************)
(* Bounds of the buffer and channel scenarios.                             *)
(***************************************************************************)
\* the largest tile size of a descriptor, in units of TILE_SIZE
MaxUnits == 2

\* calls made on the one buffer object
MaxBoCalls == 4

\* the ane_bo_init call of ane_chan_init that fails ranges over 1..MaxFailAt
MaxFailAt == 4

\* #define tile_shift(x) (((uint64_t)(x)) << TILE_SHIFT)
tile_shift(x) == x * Pow2(TILE_SHIFT)

\* #define tile_align(x) ((((uint64_t)(x)) + TILE_SIZE - 1) & -TILE_SIZE)
tile_align(x) == ((x + TILE_SIZE - 1) \div TILE_SIZE) * TILE_SIZE

\* the device after ane_open, with the one descriptor fd
OpenDev(fd) == [fds |-> {fd}, bos |-> {}, maps |-> {}, log |-> <<>>]

(***************************************************************************)
(* One buffer object driven through ane_bo_init and ane_bo_free.           *)
(* ane_bo_init is only ever called on a BO that is not mapped (a zeroed    *)
(* one in the library); ane_bo_free on any.                                *)
(***************************************************************************)
InitBO ==
    /\ TileIdle /\ AccIdle /\ JobIdle
    /\ dev = OpenDev(3)
    /\ mem = <<>>
    /\ \E u \in 0..MaxUnits : bo = [ZeroBo EXCEPT !.size = tile_shift(u)]
    /\ anec = "none" /\ mdata = "none" /\ nn = "none"
    /\ cret = [op |-> "none", oc |-> "none", err |-> 0, n |-> 0]
    /\ cpc = "bo"

BoInit ==
    /\ cpc = "bo"
    /\ cret.n < MaxBoCalls
    /\ bo.map = NULL
    /\ \E oc \in {"ok", "alloc_fail", "map_fail"} :
        \E r \in {ane_bo_init([dev |-> dev, mem |-> mem], 3, bo, oc)} :
              /\ dev' = r.w.dev
              /\ mem' = r.w.mem
              /\ bo' = r.bo
              /\ cret' = [op |-> "ane_bo_init", oc |-> oc, err |-> r.err,
                          n |-> cret.n + 1]
    /\ UNCHANGED <<anec, mdata, nn, cpc>>
    /\ UNCHANGED <<tvars, avars, jvars>>

BoFree ==
    /\ cpc = "bo"
    /\ cret.n < MaxBoCalls
    /\ \E r \in {ane_bo_free([dev |-> dev, mem |-> mem], 3, bo)} :
           /\ dev' = r.w.dev
           /\ mem' = r.w.mem
           /\ bo' = r.bo
           /\ cret' = [op |-> "ane_bo_free", oc |-> "none", err |-> 0,
                       n |-> cret.n + 1]
    /\ UNCHANGED <<anec, mdata, nn, cpc>>
    /\ UNCHANGED <<tvars, avars, jvars>>

NextBO == BoInit \/ BoFree

SpecBO == InitBO /\ [][NextBO]_vars

\* the requests of one kind the device has seen
Requests(op) == {i \in DOMAIN dev.log : dev.log[i].op = op}

Succeeded(op) == {i \in Requests(op) : dev.log[i].ok}

\* a BO with no handle and no mapping
BoUninit(b) == b.handle = 0 /\ b.map = NULL

\* a BO whose handle, offset and mapping are those of a live device buffer
BoLive(b, fd) ==
    /\ b.handle # 0 /\ b.map # NULL /\ b.offset # 0
    /\ [fd |-> fd, handle |-> b.handle, size |-> b.size] \in dev.bos
    /\ [addr |-> b.map, fd |-> fd, handle |-> b.handle, size |-> b.size] \in dev.maps

\* C9: after any sequence of ane_bo_init and ane_bo_free calls the BO is
\* fully uninitialized (handle 0, no mapping) or fully live (handle, offset
\* and mapping valid): never a handle without a mapping or the reverse.
C9_BoAllOrNothing == cpc = "bo" => (BoUninit(bo) \/ BoLive(bo, 3))

\* the last three requests the device has seen
LastThree == SubSeq(dev.log, Len(dev.log) - 2, Len(dev.log))

\* C15: when the device allocation of ane_bo_init succeeds and the mapping
\* fails, one free request carrying the handle the allocation returned is the
\* last request made, it finds that buffer live on the device, an error is
\* returned, and the BO is left with handle 0, offset 0 and no mapping.
C15_MapFailureFreesAllocation ==
    (cpc = "bo" /\ cret.op = "ane_bo_init" /\ cret.oc = "map_fail"
        /\ bo.size # 0) =>
        /\ cret.err < 0
        /\ bo.handle = 0 /\ bo.offset = 0 /\ bo.map = NULL
        /\ Len(dev.log) >= 3
        /\ LastThree[1].op = "bo_init" /\ LastThree[1].ok
        /\ LastThree[2].op = "mmap" /\ ~LastThree[2].ok
        /\ LastThree[3].op = "bo_free" /\ LastThree[3].ok
        /\ LastThree[3].id = LastThree[1].id /\ LastThree[3].id # 0
        /\ Cardinality(Requests("bo_free")) = Cardinality(Succeeded("bo_init"))
        /\ dev.bos = {} /\ dev.maps = {}

\* a mapping that fails in the second ane_bo_init of a BO, after a first one
\* that succeeded and was released
C15_Witness ==
    /\ cpc = "bo" /\ cret.op = "ane_bo_init" /\ cret.oc = "map_fail"
    /\ bo.size = 2 * TILE_SIZE /\ cret.err < 0
    /\ Len(dev.log) = 7
    /\ Cardinality(Requests("bo_free")) = 2

(***************************************************************************)
(* The channel set: ane_chan_free, ane_chan_init, set_btsp_and_command     *)
(***************************************************************************)
\* #define tile_size(nn, bdx) (tile_shift(to_anec(nn)->tiles[bdx]))
tile_size(a, bdx) == tile_shift(a.tiles[bdx])

\* bitwise and / or of two naturals below 2^bits
RECURSIVE BitAnd(_, _, _)
BitAnd(x, y, bits) ==
    IF bits = 0 THEN 0
    ELSE (x % 2) * (y % 2) + 2 * BitAnd(x \div 2, y \div 2, bits - 1)

RECURSIVE BitOr(_, _, _)
BitOr(x, y, bits) ==
    IF bits = 0 THEN 0
    ELSE Max(x % 2, y % 2) + 2 * BitOr(x \div 2, y \div 2, bits - 1)

\* the mask 0xf00ffff of set_nid, as its upper and lower 16 bits
HDR0_MASK_HI == 3840

HDR0_MASK_LO == 65535

\* the mask that keeps every bit outside bits 16-23
HDR0_KEEP_HI == 65280

\* set_nid with the mask 0xff00ffff
set_nid_keep(w0, nid) ==
    LET lo == BitAnd(w0[1] + 256 * w0[2], HDR0_MASK_LO, 16)
        hi == BitOr(BitAnd(w0[3] + 256 * w0[4], HDR0_KEEP_HI, 16),
                    BitAnd(nid, 255, 16), 16)
    IN  <<lo % 256, lo \div 256, hi % 256, hi \div 256>>

\* set_nid(td, nid) on the first four bytes of td: a little-endian uint32_t
\* hdr0, here as two 16-bit halves;
\* hdr0 = (hdr0 & 0xf00ffff) | ((nid & 0xff) << 16)
set_nid(w0, nid) ==
    LET lo == BitAnd(w0[1] + 256 * w0[2], HDR0_MASK_LO, 16)
        hi == BitOr(BitAnd(w0[3] + 256 * w0[4], HDR0_MASK_HI, 16),
                    BitAnd(nid, 255, 16), 16)
    IN  <<lo % 256, lo \div 256, hi % 256, hi \div 256>>

\* the first four bytes of a buffer after memcpy(buffer, src, n)
CopyW0(dst, src, n) == [i \in 1..4 |-> IF i <= n THEN src[i] ELSE dst[i]]

\* memcpy(map, data, n) into the mapping at address map of a BO of the given
\* size: what the mapping holds afterwards (bytes past its end are not its own)
CopyIn(c, d, n, size) ==
    IF n = 0 THEN c
    ELSE [w0 |-> CopyW0(c.w0, d.w0, Min(n, size)), src |-> "data",
          len |-> Min(n, size)]

\* set_btsp_and_command(nn): the copies and the stamp, and the undefined
\* accesses made on the way: a copy to a NULL mapping ends the process there
set_btsp_and_command(w, n, a, d) ==
    LET c0 == n.chans[0]
        nullw == a.size > 0 /\ c0.map = NULL
        over == a.size > c0.size /\ c0.map # NULL
        w1 == IF c0.map = NULL THEN w
              ELSE [w EXCEPT !.mem[c0.map] = CopyIn(@, d, a.size, c0.size)]
        b == n.btsp_chan
        w2 == [w1 EXCEPT !.mem[b.map] = CopyIn(@, d, a.td_size, b.size)]
        w3 == [w2 EXCEPT !.mem[b.map].w0 = set_nid(@, ANE_FIFO_NID)]
    IN  IF nullw THEN [w |-> w, fault |-> {"null_write"}]
        ELSE [w |-> w3,
              fault |-> (IF over THEN {"chan0_overflow"} ELSE {})
                        \cup (IF a.td_size > a.size THEN {"data_overread"} ELSE {})]

\* the first channel of S at or after bdx, ANE_TILE_COUNT when there is none
NextIn(S, bdx) ==
    IF \A b \in S : b < bdx THEN ANE_TILE_COUNT
    ELSE CHOOSE b \in S : b >= bdx /\ \A c \in S : c >= bdx => b <= c

RECURSIVE chan_free_loop(_, _, _, _)
RECURSIVE chan_free_step(_, _, _, _)
\* ane_bo_free(ane, &nn->chans[bdx]) returned r
chan_free_step(r, fd, chans, bdx) ==
    chan_free_loop(r.w, fd, [chans EXCEPT ![bdx] = r.bo], bdx + 1)

\* for (bdx < ANE_TILE_COUNT) ane_bo_free(ane, &nn->chans[bdx]); the calls on
\* a run of channels without a mapping change nothing and are taken at once
chan_free_loop(w, fd, chans, bdx) ==
    IF bdx >= ANE_TILE_COUNT THEN [w |-> w, chans |-> chans]
    ELSE IF chans[bdx].map # NULL
         THEN chan_free_step(ane_bo_free(w, fd, chans[bdx]), fd, chans, bdx)
         ELSE chan_free_loop(w, fd, chans,
                  NextIn({b \in 0..(ANE_TILE_COUNT - 1) : chans[b].map # NULL},
                         bdx + 1))

chan_free_ret(n, btsp, c) ==
    [w |-> c.w, nn |-> [n EXCEPT !.btsp_chan = btsp, !.chans = c.chans]]

\* the channel loop of ane_chan_free started at channel 1
chan_free_chans_from1(b, n) ==
    chan_free_ret(n, b.bo, chan_free_loop(b.w, n.fd, n.chans, 1))

\* ane_chan_free after ane_bo_free(ane, &nn->btsp_chan) returned b
chan_free_chans(b, n) ==
    chan_free_ret(n, b.bo, chan_free_loop(b.w, n.fd, n.chans, 0))

ane_chan_free(w, n) == chan_free_chans(ane_bo_free(w, n.fd, n.btsp_chan), n)

\* what the k-th ane_bo_init call of an init does under a failure plan
Outcome(plan, k) == IF plan.at = k THEN plan.oc ELSE "ok"

\* a channel counts as present from tile size 2 on
Present_from2(a, bdx) == a.tiles[bdx] > 1

\* if (anec->tiles[bdx])
Present(a, bdx) == a.tiles[bdx] # 0

\* the channel loop of ane_chan_init; k counts the ane_bo_init calls made; the
\* iterations over a run of absent channels change nothing and are taken at once
RECURSIVE chan_init_loop(_, _, _, _, _, _)
RECURSIVE chan_init_step(_, _, _, _, _, _)
\* ane_bo_init(ane, &nn->chans[bdx]) returned r, the k-th call
chan_init_step(r, n, a, plan, k, bdx) ==
    IF r.err < 0
    THEN [w |-> r.w, nn |-> [n EXCEPT !.chans[bdx] = r.bo], err |-> r.err, k |-> k]
    ELSE chan_init_loop(r.w, [n EXCEPT !.chans[bdx] = r.bo], a, plan, k, bdx + 1)

chan_init_loop(w, n, a, plan, k, bdx) ==
    IF bdx >= ANE_TILE_COUNT THEN [w |-> w, nn |-> n, err |-> 0, k |-> k]
    ELSE IF Present(a, bdx)
         THEN chan_init_step(
                  ane_bo_init(w, n.fd,
                      [n.chans[bdx] EXCEPT !.size = tile_size(a, bdx)],
                      Outcome(plan, k + 1)),
                  n, a, plan, k + 1, bdx)
         ELSE chan_init_loop(w, n, a, plan, k,
                  NextIn({b \in 0..(ANE_TILE_COUNT - 1) : Present(a, b)}, bdx + 1))

\* the error label of ane_chan_init, after ane_chan_free returned f
chan_init_failed(f, err, k) ==
    [w |-> f.w, nn |-> f.nn, err |-> err, k |-> k, fault |-> {}]

chan_init_error(w, n, err, k) == chan_init_failed(ane_chan_free(w, n), err, k)

\* return 0, after set_btsp_and_command returned s
chan_init_ok(s, n, k) ==
    [w |-> s.w, nn |-> n, err |-> 0, k |-> k, fault |-> s.fault]

\* ane_chan_init after ane_bo_init(ane, &nn->btsp_chan) returned r
chan_init_btsp_done(r, n, a, d, k) ==
    IF r.err < 0
    THEN chan_init_error(r.w, [n EXCEPT !.btsp_chan = r.bo], r.err, k)
    ELSE chan_init_ok(
             set_btsp_and_command(r.w, [n EXCEPT !.btsp_chan = r.bo], a, d),
             [n EXCEPT !.btsp_chan = r.bo], k)

\* the bootstrap buffer sized to td_size itself
btsp_size_exact(a) == a.td_size

\* bo->size = tile_align(anec->td_size)
btsp_size(a) == tile_align(a.td_size)

\* ane_chan_init after its channel loop returned l
chan_init_btsp(l, a, d, plan) ==
    IF l.err < 0 THEN chan_init_error(l.w, l.nn, l.err, l.k)
    ELSE chan_init_btsp_done(
             ane_bo_init(l.w, l.nn.fd,
                 [l.nn.btsp_chan EXCEPT !.size = btsp_size(a)],
                 Outcome(plan, l.k + 1)),
             l.nn, a, d, l.k + 1)

ane_chan_init(w, n, a, d, plan) ==
    chan_init_btsp(chan_init_loop(w, n, a, plan, 0, 0), a, d, plan)

(***************************************************************************)
(* ane_exec                                                                *)
(***************************************************************************)
\* ioctl(fd, DRM_IOCTL_ANE_SUBMIT, &args): the device runs the job and
\* reports its status
drm_submit(w, fd, args, status) ==
    [w |-> Logged(w, [op |-> "submit", fd |-> fd, id |-> 0,
                      ok |-> (fd \in w.dev.fds /\ status = 0),
                      ret |-> (IF fd \in w.dev.fds THEN status ELSE 0 - 1),
                      args |-> args]),
     ret |-> IF fd \in w.dev.fds THEN status ELSE 0 - 1]

\* struct drm_ane_submit args after memset(&args, 0, sizeof(args)) and the
\* assignments of ane_exec
exec_args(n, a) ==
    [tsk_size |-> a.tsk_size, td_count |-> a.td_count, td_size |-> a.td_size,
     handles |-> [bdx \in 0..(ANE_TILE_COUNT - 1) |->
                    IF a.tiles[bdx] # 0 THEN n.chans[bdx].handle ELSE 0],
     btsp_handle |-> n.btsp_chan.handle]

\* return ioctl(...)
exec_ret(r) == [w |-> r.w, ret |-> r.ret]

\* a submit made again when the device reports a failure
exec_retry(r, n, a) ==
    IF r.ret < 0 THEN exec_ret(drm_submit(r.w, n.fd, exec_args(n, a), r.ret))
    ELSE exec_ret(r)

ane_exec_retry(w, n, a, status) ==
    exec_retry(drm_submit(w, n.fd, exec_args(n, a), status), n, a)

ane_exec(w, n, a, status) ==
    exec_ret(drm_submit(w, n.fd, exec_args(n, a), status))

\* the calls of ane_exec made on one job instance
MaxExec == 2

(***************************************************************************)
(* ane_chan_init on the zeroed job instance of an open device, under every *)
(* descriptor of the bounds and a failure injected at every position.      *)
(***************************************************************************)
\* the absolute channels a descriptor of the scenario may mark present
CandChans == {0, 4, 5, 63}

ChanDescs ==
    {[size |-> sz, tsk_size |-> 12, td_count |-> 3, td_size |-> td,
      src_count |-> 1, dst_count |-> 1,
      tiles |-> [bdx \in 0..(ANE_TILE_COUNT - 1) |->
                    IF bdx \in CandChans THEN u[bdx] ELSE 0]] :
        sz \in {16, 2 * TILE_SIZE},
        td \in {0, 2, 16, TILE_SIZE + 1},
        u \in {v \in [CandChans -> 0..MaxUnits] : v[ANE_TILE_COUNT - 1] <= 1}}

\* the first four bytes of the task program
Words == {<<0, 0, 0, 0>>, <<255, 255, 255, 255>>, <<120, 86, 52, 18>>}

\* struct ane_nn after ane_zmalloc, nn->ane.fd set
ZeroNn(fd) ==
    [chans |-> [bdx \in 0..(ANE_TILE_COUNT - 1) |-> ZeroBo],
     btsp_chan |-> ZeroBo, fd |-> fd]

Plans == {[at |-> 0, oc |-> "ok"]}
            \cup [at : 1..MaxFailAt, oc : {"alloc_fail", "map_fail"}]

InitChan ==
    /\ TileIdle /\ AccIdle /\ JobIdle
    /\ dev = OpenDev(3)
    /\ mem = <<>>
    /\ bo = "none"
    /\ anec \in ChanDescs
    /\ \E x \in Words : mdata = [w0 |-> x]
    /\ nn = ZeroNn(3)
    /\ cret = [op |-> "none", plan |-> [at |-> 0, oc |-> "ok"], err |-> 0,
               k |-> 0, fault |-> {}, x |-> 0]
    /\ cpc = "new"

\* ane_chan_init(&nn->ane, nn); an access past the end of a buffer either
\* ends the process or goes unnoticed
ChanInit ==
    /\ cpc = "new"
    /\ \E plan \in Plans, ub \in {"crash", "continue"} :
        \E r \in {ane_chan_init([dev |-> dev, mem |-> mem], nn, anec, mdata, plan)} :
          LET dead == "null_write" \in r.fault \/ (r.fault # {} /\ ub = "crash")
          IN  /\ dev' = r.w.dev
              /\ mem' = r.w.mem
              /\ nn' = r.nn
              /\ cret' = [op |-> "ane_chan_init", plan |-> plan, err |-> r.err,
                          k |-> r.k, fault |-> r.fault, x |-> 0]
              /\ cpc' = IF dead THEN "crashed"
                        ELSE IF r.err < 0 THEN "failed" ELSE "live"
    /\ UNCHANGED <<bo, anec, mdata>>
    /\ UNCHANGED <<tvars, avars, jvars>>

\* ane_chan_free(&nn->ane, nn), once or again
ChanFree ==
    /\ cpc \in {"live", "failed", "freed"}
    /\ \E r \in {ane_chan_free([dev |-> dev, mem |-> mem], nn)} :
           /\ dev' = r.w.dev
           /\ mem' = r.w.mem
           /\ nn' = r.nn
    /\ cret' = [cret EXCEPT !.op = "ane_chan_free"]
    /\ cpc' = IF cpc = "freed" THEN "refreed" ELSE "freed"
    /\ UNCHANGED <<bo, anec, mdata>>
    /\ UNCHANGED <<tvars, avars, jvars>>

\* ane_exec(nn) on the live job instance; the device reports success or not
Exec ==
    /\ cpc = "live"
    /\ cret.x < MaxExec
    /\ \E status \in {0, 0 - 1} :
        \E r \in {ane_exec([dev |-> dev, mem |-> mem], nn, anec, status)} :
           /\ dev' = r.w.dev
           /\ mem' = r.w.mem
           /\ cret' = [cret EXCEPT !.op = "ane_exec", !.err = r.ret, !.x = @ + 1]
    /\ UNCHANGED <<bo, anec, mdata, nn, cpc>>
    /\ UNCHANGED <<tvars, avars, jvars>>

NextChan == ChanInit \/ ChanFree \/ Exec

SpecChan == InitChan /\ [][NextChan]_vars

(***************************************************************************)
(* Claims on the channel set.                                              *)
(***************************************************************************)
\* the ane_bo_init calls ane_chan_init makes when none fails: one per present
\* channel and one for the bootstrap buffer
InitCalls(a) ==
    Cardinality({bdx \in 0..(ANE_TILE_COUNT - 1) : a.tiles[bdx] # 0}) + 1

\* the channel BOs and the bootstrap BO of the job instance
SetBos == {nn.chans[bdx] : bdx \in 0..(ANE_TILE_COUNT - 1)} \cup {nn.btsp_chan}

\* C1: for every descriptor and every position at which an allocate or map
\* step fails, ane_chan_init returns a negative status; when it returns one,
\* every buffer allocated and mapped before the failure is unmapped and freed
\* on the device, every free and unmap request is for a buffer that was live
\* (none for a channel that is absent or was not attempted), and no BO of the
\* channel set is left mapped.
C1_ChanInitRollback ==
    /\ (cret.op = "ane_chan_init" /\ cret.plan.at \in 1..InitCalls(anec))
           => (cpc = "failed" /\ cret.err < 0)
    /\ cpc = "failed" =>
           /\ cret.err < 0
           /\ dev.bos = {} /\ dev.maps = {}
           /\ \A b \in SetBos : b.map = NULL
           /\ Requests("bo_free") = Succeeded("bo_free")
           /\ Requests("munmap") = Succeeded("munmap")
           /\ Cardinality(Requests("bo_free")) = Cardinality(Succeeded("bo_init"))
           /\ Cardinality(Requests("munmap")) = Cardinality(Succeeded("mmap"))

\* a failure at the third ane_bo_init call, two channels rolled back
C1_Witness ==
    /\ cpc = "failed" /\ cret.plan.at = 3 /\ cret.k = 3
    /\ Cardinality(Succeeded("mmap")) = 2
    /\ Cardinality(Requests("munmap")) = 2

\* C2: after a successful ane_chan_init, for every descriptor and every
\* absolute channel 0..63, the channel's BO is allocated and mapped if and
\* only if the descriptor's tile size there is non-zero (with that size), an
\* absent channel has neither handle nor mapping, and the bootstrap BO is
\* allocated and mapped with size td_size rounded up to a multiple of 16384.
C2_AllocatedIffPresent ==
    (cpc = "live" /\ cret.op = "ane_chan_init") =>
        /\ \A bdx \in 0..(ANE_TILE_COUNT - 1) :
              IF anec.tiles[bdx] # 0
              THEN /\ BoLive(nn.chans[bdx], nn.fd)
                   /\ nn.chans[bdx].size = anec.tiles[bdx] * TILE_SIZE
              ELSE BoUninit(nn.chans[bdx])
        /\ BoLive(nn.btsp_chan, nn.fd)
        /\ nn.btsp_chan.size >= anec.td_size
        /\ nn.btsp_chan.size < anec.td_size + TILE_SIZE
        /\ nn.btsp_chan.size % TILE_SIZE = 0
        /\ Cardinality(dev.bos) = InitCalls(anec)
        /\ Cardinality(dev.maps) = InitCalls(anec)

\* a live channel set with present and absent channels, a tile size of one
\* unit next to one of two, and a bootstrap buffer of two tiles
C2_Witness ==
    /\ cpc = "live" /\ cret.op = "ane_chan_init"
    /\ anec.tiles[0] = 1 /\ anec.tiles[4] = 2 /\ anec.tiles[5] = 0
    /\ anec.tiles[ANE_TILE_COUNT - 1] = 1
    /\ anec.td_size = TILE_SIZE + 1
    /\ nn.btsp_chan.size = 2 * TILE_SIZE

\* the first word of the bootstrap mapping, as its two 16-bit halves
BtspLo == mem[nn.btsp_chan.map].w0[1] + 256 * mem[nn.btsp_chan.map].w0[2]

BtspHi == mem[nn.btsp_chan.map].w0[3] + 256 * mem[nn.btsp_chan.map].w0[4]

\* C3: after ane_chan_init, for every value of the task program's first
\* 32-bit word, the bootstrap buffer's first word has bits 16-23 equal to
\* ANE_FIFO_NID and every other bit (0-15 and 24-31) equal to the same bit
\* of the task program's first word.
C3_StampKeepsOtherBits ==
    (cpc = "live" /\ cret.op = "ane_chan_init" /\ anec.td_size >= 4) =>
        /\ BtspHi % 256 = ANE_FIFO_NID
        /\ BtspLo = mdata.w0[1] + 256 * mdata.w0[2]
        /\ BtspHi \div 256 = mdata.w0[4]

\* the descriptor of the end-to-end scenario: one destination and one source
\* channel, tile sizes 1 at channel 4 and 2 at channel 5 and 0 elsewhere
EndToEndDesc(a) ==
    /\ a.tiles[4] = 1 /\ a.tiles[5] = 2
    /\ \A bdx \in 0..(ANE_TILE_COUNT - 1) : bdx \notin {4, 5} => a.tiles[bdx] = 0
    /\ a.td_size > 0

\* C14: for the descriptor with dst_count = 1, src_count = 1 whose only
\* non-zero tile sizes are at channels 4 and 5, and with no device failure,
\* ane_chan_init succeeds and leaves exactly these two channels and the
\* bootstrap buffer allocated, having accessed the mapping of no channel that
\* is not allocated.
C14_EndToEndInit ==
    (cret.op = "ane_chan_init" /\ cret.plan.at = 0 /\ EndToEndDesc(anec)) =>
        /\ cpc = "live" /\ cret.err = 0
        /\ cret.fault = {}
        /\ \A bdx \in 0..(ANE_TILE_COUNT - 1) :
              IF bdx \in {4, 5} THEN BoLive(nn.chans[bdx], nn.fd)
              ELSE BoUninit(nn.chans[bdx])
        /\ BoLive(nn.btsp_chan, nn.fd)
        /\ Cardinality(dev.bos) = 3

\* C20: for every descriptor, the payload copy of init into channel 0 writes
\* no more bytes than channel 0's allocated size (its tile size << 14), and
\* the task-descriptor copy into the bootstrap buffer no more than the
\* bootstrap buffer's size, td_size rounded up to a multiple of 16384.
C20_InitCopiesFit ==
    (cret.op = "ane_chan_init" /\ cret.err = 0) =>
        /\ anec.size <= tile_size(anec, 0)
        /\ "chan0_overflow" \notin cret.fault
        /\ "null_write" \notin cret.fault
        /\ anec.td_size <= tile_align(anec.td_size)
        /\ anec.td_size <= nn.btsp_chan.size

\* the last request the device has seen
LastRequest == dev.log[Len(dev.log)]

\* C12: each call of ane_exec issues exactly one submit request and returns
\* the status the device reports for it, without a second attempt; the
\* submitted record carries the descriptor's task size, task-descriptor count
\* and size, the handle of the bootstrap BO, and for every absolute channel
\* 0..63 the handle of the channel's BO if the channel is present and 0 if not.
C12_ExecSubmitsOnce ==
    (cpc = "live" /\ cret.op = "ane_exec") =>
        /\ Cardinality(Requests("submit")) = cret.x
        /\ LastRequest.op = "submit" /\ LastRequest.fd = nn.fd
        /\ cret.err = LastRequest.ret
        /\ LastRequest.args.tsk_size = anec.tsk_size
        /\ LastRequest.args.td_count = anec.td_count
        /\ LastRequest.args.td_size = anec.td_size
        /\ LastRequest.args.btsp_handle = nn.btsp_chan.handle
        /\ [fd |-> nn.fd, handle |-> LastRequest.args.btsp_handle,
            size |-> nn.btsp_chan.size] \in dev.bos
        /\ \A bdx \in 0..(ANE_TILE_COUNT - 1) :
              IF anec.tiles[bdx] # 0
              THEN /\ LastRequest.args.handles[bdx] = nn.chans[bdx].handle
                   /\ [fd |-> nn.fd, handle |-> LastRequest.args.handles[bdx],
                       size |-> nn.chans[bdx].size] \in dev.bos
              ELSE LastRequest.args.handles[bdx] = 0

\* a second ane_exec after one the device failed, on a channel set with
\* present and absent channels
C12_Witness ==
    /\ cpc = "live" /\ cret.op = "ane_exec" /\ cret.x = 2 /\ cret.err = 0
    /\ Cardinality(Succeeded("submit")) = 1
    /\ anec.tiles[0] = 1 /\ anec.tiles[4] = 2 /\ anec.tiles[5] = 0
    /\ LastRequest.args.handles[4] = 2 /\ LastRequest.args.handles[5] = 0

(***************************************************************************)
(* 32-bit arithmetic of the channel index macros.  A C integer is held as  *)
(* two limbs, its value being hi * 65536 + lo with 0 <= lo < 65536: hi is  *)
(* in 0..65535 for a uint32_t and in -32768..32767 for an int.             *)
(***************************************************************************)
LIMB == 256 * 256

INT_MAX == 32767 * LIMB + (LIMB - 1)

Wide(x) == [hi |-> x \div LIMB, lo |-> x % LIMB]

\* the conversion of an int to uint32_t
ToU32(x) == [hi |-> x.hi % LIMB, lo |-> x.lo]

\* the conversion of a uint32_t to int
ToInt(u) == [hi |-> IF u.hi >= LIMB \div 2 THEN u.hi - LIMB ELSE u.hi, lo |-> u.lo]

\* a + b in uint32_t
U32Add(a, b) ==
    [hi |-> (a.hi + b.hi + (a.lo + b.lo) \div LIMB) % LIMB,
     lo |-> (a.lo + b.lo) % LIMB]

\* a >= b for two values of one type
WideGe(a, b) == a.hi > b.hi \/ (a.hi = b.hi /\ a.lo >= b.lo)

\* the source channels numbered from 4, as the destination channels are
src_bdx_nodst(a, idx) == U32Add(Wide(4), ToU32(Wide(idx)))

\* #define src_bdx(nn, idx) (4 + to_anec(nn)->dst_count + idx): dst_count is
\* a uint32_t, so 4 and the int idx are converted and the sum is a uint32_t
src_bdx(a, idx) == U32Add(U32Add(Wide(4), a.dst_count), ToU32(Wide(idx)))

\* #define dst_bdx(nn, idx) (4 + idx): an int; past INT_MAX the sum is
\* undefined, and wraps where it does not trap
dst_overflows(idx) == idx > INT_MAX - 4

dst_bdx(idx) ==
    IF dst_overflows(idx) THEN ToInt(U32Add(Wide(4), ToU32(Wide(idx))))
    ELSE Wide(4 + idx)

\* the condition of SRC_INDEX_CHECK / DST_INDEX_CHECK: idx >= src_count(nn),
\* compared as uint32_t
SRC_INDEX_CHECK(a, idx) == WideGe(ToU32(Wide(idx)), a.src_count)

DST_INDEX_CHECK(a, idx) == WideGe(ToU32(Wide(idx)), a.dst_count)

\* an index of the tables nn->chans[] and anec->tiles[]
InTable(x) == x.hi = 0 /\ x.lo < ANE_TILE_COUNT

(***************************************************************************)
(* The accessors.  Each yields the memory afterwards and a record of the   *)
(* call: the absolute channel it resolved, the channel mappings it read    *)
(* and wrote, the bytes of the caller's buffer it read and wrote, what it  *)
(* returned, and the undefined accesses it made.                           *)
(***************************************************************************)
Access(op, kind, idx) ==
    [op |-> op, kind |-> kind, idx |-> idx, bailed |-> FALSE, bdx |-> Wide(0),
     chan_rd |-> {}, chan_wr |-> {}, user_rd |-> 0, user_wr |-> 0, ret |-> 0,
     fault |-> {}, n |-> 0]

\* the return of a failed index check
Bailed(w, r) == [w |-> w, acc |-> [r EXCEPT !.bailed = TRUE]]

\* an index outside nn->chans[] / anec->tiles[]
OutOfTable(w, r, x) ==
    [w |-> w, acc |-> [r EXCEPT !.bdx = x, !.fault = @ \cup {"out_of_table"}]]

\* the first four bytes of the caller's buffer: the uint16_t elements 1, 2
UserWord == <<1, 0, 2, 0>>

\* the caller's dense tensor of a shape
UserTensor(s) == [i \in 0..(DenseLen(s) - 1) |-> i + 1]

\* a copy of half the declared size
send_copy_half(w, n, a, r, x) ==
    IF ~InTable(x) THEN OutOfTable(w, r, x)
    ELSE IF n.chans[x.lo].map = NULL
    THEN [w |-> w, acc |-> [r EXCEPT !.bdx = x, !.fault = {"null_write"}]]
    ELSE [w |-> [w EXCEPT !.mem[n.chans[x.lo].map] =
                    [w0 |-> UserWord, src |-> "user",
                     len |-> tile_size(a, x.lo) \div 2]],
          acc |-> [r EXCEPT !.bdx = x, !.chan_wr = {x.lo},
                            !.user_rd = tile_size(a, x.lo) \div 2]]

\* memcpy(nn->chans[bdx].map, from, tile_size(nn, bdx))
send_copy(w, n, a, r, x) ==
    IF ~InTable(x) THEN OutOfTable(w, r, x)
    ELSE IF tile_size(a, x.lo) = 0 THEN [w |-> w, acc |-> [r EXCEPT !.bdx = x]]
    ELSE IF n.chans[x.lo].map = NULL
    THEN [w |-> w, acc |-> [r EXCEPT !.bdx = x, !.fault = {"null_write"}]]
    ELSE [w |-> [w EXCEPT !.mem[n.chans[x.lo].map] =
                    [w0 |-> UserWord, src |-> "user", len |-> tile_size(a, x.lo)]],
          acc |-> [r EXCEPT !.bdx = x, !.chan_wr = {x.lo},
                            !.user_rd = tile_size(a, x.lo)]]

__ane_send(w, n, a, chk, idx) ==
    IF chk /\ SRC_INDEX_CHECK(a, idx)
    THEN Bailed(w, Access("__ane_send", "src", idx))
    ELSE send_copy(w, n, a, Access("__ane_send", "src", idx), src_bdx(a, idx))

\* memcpy(to, nn->chans[bdx].map, tile_size(nn, bdx))
read_copy(w, n, a, r, x) ==
    IF ~InTable(x) THEN OutOfTable(w, r, x)
    ELSE IF tile_size(a, x.lo) = 0 THEN [w |-> w, acc |-> [r EXCEPT !.bdx = x]]
    ELSE IF n.chans[x.lo].map = NULL
    THEN [w |-> w, acc |-> [r EXCEPT !.bdx = x, !.fault = @ \cup {"null_read"}]]
    ELSE [w |-> w,
          acc |-> [r EXCEPT !.bdx = x, !.chan_rd = {x.lo},
                            !.user_wr = tile_size(a, x.lo)]]

\* 4 + idx evaluated past INT_MAX
Overflowed(r, idx) ==
    IF dst_overflows(idx) THEN [r EXCEPT !.fault = {"signed_overflow"}] ELSE r

__ane_read(w, n, a, chk, idx) ==
    IF chk /\ DST_INDEX_CHECK(a, idx)
    THEN Bailed(w, Access("__ane_read", "dst", idx))
    ELSE read_copy(w, n, a, Overflowed(Access("__ane_read", "dst", idx), idx),
                   dst_bdx(idx))

\* return nn->chans[bdx].map
chan_ptr(w, n, r, x) ==
    IF ~InTable(x) THEN OutOfTable(w, r, x)
    ELSE [w |-> w, acc |-> [r EXCEPT !.bdx = x, !.ret = n.chans[x.lo].map]]

__ane_src_chan(w, n, a, chk, idx) ==
    IF chk /\ SRC_INDEX_CHECK(a, idx)
    THEN Bailed(w, Access("__ane_src_chan", "src", idx))
    ELSE chan_ptr(w, n, Access("__ane_src_chan", "src", idx), src_bdx(a, idx))

__ane_dst_chan(w, n, a, chk, idx) ==
    IF chk /\ DST_INDEX_CHECK(a, idx)
    THEN Bailed(w, Access("__ane_dst_chan", "dst", idx))
    ELSE chan_ptr(w, n, Overflowed(Access("__ane_dst_chan", "dst", idx), idx),
                  dst_bdx(idx))

\* return tile_size(nn, bdx)
chan_size(w, a, r, x) ==
    IF ~InTable(x) THEN OutOfTable(w, r, x)
    ELSE [w |-> w, acc |-> [r EXCEPT !.bdx = x, !.ret = tile_size(a, x.lo)]]

__ane_src_size(w, n, a, chk, idx) ==
    IF chk /\ SRC_INDEX_CHECK(a, idx)
    THEN Bailed(w, Access("__ane_src_size", "src", idx))
    ELSE chan_size(w, a, Access("__ane_src_size", "src", idx), src_bdx(a, idx))

__ane_dst_size(w, n, a, chk, idx) ==
    IF chk /\ DST_INDEX_CHECK(a, idx)
    THEN Bailed(w, Access("__ane_dst_size", "dst", idx))
    ELSE chan_size(w, a, Overflowed(Access("__ane_dst_size", "dst", idx), idx),
                   dst_bdx(idx))

\* the first four bytes of the tile ane_tile makes of the caller's tensor in
\* a zeroed array
TileWord(s) ==
    <<ane_tile(UserTensor(s), [i \in 0..Max(TileBufLen(s), 2) - 1 |-> 0], s).mem[0] % 256,
      ane_tile(UserTensor(s), [i \in 0..Max(TileBufLen(s), 2) - 1 |-> 0], s).mem[0] \div 256,
      ane_tile(UserTensor(s), [i \in 0..Max(TileBufLen(s), 2) - 1 |-> 0], s).mem[1] % 256,
      ane_tile(UserTensor(s), [i \in 0..Max(TileBufLen(s), 2) - 1 |-> 0], s).mem[1] \div 256>>

\* __ane_tile_send after const int bdx = src_bdx(nn, idx): the local array
\* tile of tile_size(nn, bdx) bytes is zeroed, ane_tile fills it from the
\* caller's buffer with the shape nchw[bdx], and it is copied to the mapping
tile_send_copy(w, n, a, r, x) ==
    IF ~InTable(x) THEN OutOfTable(w, r, x)
    ELSE IF a.nchw[x.lo].R = 0
    THEN [w |-> w, acc |-> [r EXCEPT !.bdx = x, !.fault = {"division_by_zero"}]]
    ELSE IF TileSpan(a.nchw[x.lo]) * ElemSize > tile_size(a, x.lo)
    THEN [w |-> w,
          acc |-> [r EXCEPT !.bdx = x, !.fault = {"tile_overflow"},
                            !.user_rd = DenseLen(a.nchw[x.lo]) * ElemSize]]
    ELSE IF n.chans[x.lo].map = NULL
    THEN [w |-> w,
          acc |-> [r EXCEPT !.bdx = x, !.fault = {"null_write"},
                            !.user_rd = DenseLen(a.nchw[x.lo]) * ElemSize]]
    ELSE [w |-> [w EXCEPT !.mem[n.chans[x.lo].map] =
                    [w0 |-> TileWord(a.nchw[x.lo]), src |-> "tile",
                     len |-> tile_size(a, x.lo)]],
          acc |-> [r EXCEPT !.bdx = x, !.chan_wr = {x.lo},
                            !.user_rd = DenseLen(a.nchw[x.lo]) * ElemSize]]

\* no SRC_INDEX_CHECK here
__ane_tile_send(w, n, a, chk, idx) ==
    tile_send_copy(w, n, a, Access("__ane_tile_send", "src", idx),
                   ToInt(src_bdx(a, idx)))

\* the mappings memcpy(tile, nn->chans[bdx].map, tile_size(nn, bdx)) reads
MapRead(a, x) == IF tile_size(a, x.lo) = 0 THEN {} ELSE {x.lo}

\* __ane_tile_read after const int bdx = dst_bdx(nn, idx): the mapping is
\* copied to the local array tile, and ane_untile zeroes the caller's buffer
\* and fills it from the tile with the shape nchw[bdx]
tile_read_copy(w, n, a, r, x) ==
    IF ~InTable(x) THEN OutOfTable(w, r, x)
    ELSE IF tile_size(a, x.lo) > 0 /\ n.chans[x.lo].map = NULL
    THEN [w |-> w, acc |-> [r EXCEPT !.bdx = x, !.fault = @ \cup {"null_read"}]]
    ELSE IF a.nchw[x.lo].R = 0
    THEN [w |-> w,
          acc |-> [r EXCEPT !.bdx = x, !.chan_rd = MapRead(a, x),
                            !.fault = @ \cup {"division_by_zero"}]]
    ELSE IF TileSpan(a.nchw[x.lo]) * ElemSize > tile_size(a, x.lo)
    THEN [w |-> w,
          acc |-> [r EXCEPT !.bdx = x, !.chan_rd = MapRead(a, x),
                            !.user_wr = DenseLen(a.nchw[x.lo]) * ElemSize,
                            !.fault = @ \cup {"tile_overread"}]]
    ELSE [w |-> w,
          acc |-> [r EXCEPT !.bdx = x, !.chan_rd = MapRead(a, x),
                            !.user_wr = DenseLen(a.nchw[x.lo]) * ElemSize]]

\* no DST_INDEX_CHECK here
__ane_tile_read(w, n, a, chk, idx) ==
    tile_read_copy(w, n, a, Overflowed(Access("__ane_tile_read", "dst", idx), idx),
                   dst_bdx(idx))

(***************************************************************************)
(* The accessors called on a live job instance, with indices in and out of *)
(* range, for descriptors with small counts and with counts near 2^32, in  *)
(* a build with and in one without LIBANE_INDEX_CHECK.                     *)
(***************************************************************************)
\* the largest dst_count and src_count of a descriptor that fits the table
MaxCount == 2

\* the accessor calls made on one job instance
MaxCalls == 2

\* the shape of every present channel, and of the absent ones
ChanShape == [N |-> 1, C |-> 1, H |-> 1, W |-> 2, P |-> 4, R |-> 4]

ZeroShape == [N |-> 0, C |-> 0, H |-> 0, W |-> 0, P |-> 0, R |-> 0]

\* the counts 0xfffffffc and 0xffffffff
WrapCounts == {ToU32(Wide(0 - 4)), ToU32(Wide(0 - 1))}

\* the channels a descriptor of the scenario marks present: channel 0 for the
\* payload and the destination and source channels that are in the table
Used(d, s) ==
    {0} \cup {b \in 4..(ANE_TILE_COUNT - 1) :
                b < 4 + (IF d.hi = 0 THEN d.lo ELSE MaxCount) + s.lo}

AccDescs ==
    {[size |-> 16, tsk_size |-> 12, td_count |-> 3, td_size |-> 16,
      src_count |-> s, dst_count |-> d,
      tiles |-> [bdx \in 0..(ANE_TILE_COUNT - 1) |->
                    IF bdx \in Used(d, s) THEN 1 ELSE 0],
      nchw |-> [bdx \in 0..(ANE_TILE_COUNT - 1) |->
                    IF bdx \in Used(d, s) THEN ChanShape ELSE ZeroShape]] :
        d \in {Wide(c) : c \in 0..MaxCount} \cup WrapCounts,
        s \in {Wide(c) : c \in 0..MaxCount}}

Indices == ((0 - 1)..(MaxCount + 1)) \cup {INT_MAX}

InitAcc ==
    /\ TileIdle /\ JobIdle
    /\ check \in BOOLEAN
    /\ anec \in AccDescs
    /\ mdata = [w0 |-> <<0, 0, 0, 0>>]
    /\ bo = "none"
    /\ \E r \in {ane_chan_init([dev |-> OpenDev(3), mem |-> <<>>], ZeroNn(3),
                               anec, mdata, [at |-> 0, oc |-> "ok"])} :
          /\ dev = r.w.dev
          /\ mem = r.w.mem
          /\ nn = r.nn
          /\ cret = [op |-> "ane_chan_init", plan |-> [at |-> 0, oc |-> "ok"],
                     err |-> r.err, k |-> r.k, fault |-> r.fault]
    /\ acc = Access("none", "none", 0)
    /\ cpc = "acc"

\* the call returns, or an undefined access of it ends the process
AccStep(r) ==
    /\ mem' = r.w.mem
    /\ acc' = [r.acc EXCEPT !.n = acc.n + 1]
    /\ \E ub \in (IF r.acc.fault = {} THEN {"continue"} ELSE {"continue", "crash"}) :
          cpc' = IF ub = "crash" THEN "crashed" ELSE "acc"
    /\ UNCHANGED <<dev, bo, anec, mdata, nn, cret, check>>
    /\ UNCHANGED <<tvars, jvars>>

Send ==
    /\ cpc = "acc" /\ acc.n < MaxCalls
    /\ \E idx \in Indices :
        \E r \in {__ane_send([dev |-> dev, mem |-> mem], nn, anec, check, idx)} :
            AccStep(r)

Read ==
    /\ cpc = "acc" /\ acc.n < MaxCalls
    /\ \E idx \in Indices :
        \E r \in {__ane_read([dev |-> dev, mem |-> mem], nn, anec, check, idx)} :
            AccStep(r)

SrcChan ==
    /\ cpc = "acc" /\ acc.n < MaxCalls
    /\ \E idx \in Indices :
        \E r \in {__ane_src_chan([dev |-> dev, mem |-> mem], nn, anec, check, idx)} :
            AccStep(r)

DstChan ==
    /\ cpc = "acc" /\ acc.n < MaxCalls
    /\ \E idx \in Indices :
        \E r \in {__ane_dst_chan([dev |-> dev, mem |-> mem], nn, anec, check, idx)} :
            AccStep(r)

SrcSize ==
    /\ cpc = "acc" /\ acc.n < MaxCalls
    /\ \E idx \in Indices :
        \E r \in {__ane_src_size([dev |-> dev, mem |-> mem], nn, anec, check, idx)} :
            AccStep(r)

DstSize ==
    /\ cpc = "acc" /\ acc.n < MaxCalls
    /\ \E idx \in Indices :
        \E r \in {__ane_dst_size([dev |-> dev, mem |-> mem], nn, anec, check, idx)} :
            AccStep(r)

TileSend ==
    /\ cpc = "acc" /\ acc.n < MaxCalls
    /\ \E idx \in Indices :
        \E r \in {__ane_tile_send([dev |-> dev, mem |-> mem], nn, anec, check, idx)} :
            AccStep(r)

TileRead ==
    /\ cpc = "acc" /\ acc.n < MaxCalls
    /\ \E idx \in Indices :
        \E r \in {__ane_tile_read([dev |-> dev, mem |-> mem], nn, anec, check, idx)} :
            AccStep(r)

NextAcc ==
    \/ Send \/ Read \/ SrcChan \/ DstChan \/ SrcSize \/ DstSize
    \/ TileSend \/ TileRead

SpecAcc == InitAcc /\ [][NextAcc]_vars

(***************************************************************************)
(* Claims on the accessors.                                                *)
(***************************************************************************)
\* the index of a call is below the count of its kind (and not negative)
InRange(a, r) ==
    /\ r.op # "none"
    /\ r.kind = "src" => ~SRC_INDEX_CHECK(a, r.idx)
    /\ r.kind = "dst" => ~DST_INDEX_CHECK(a, r.idx)

\* the numbers 4 + idx and 4 + dst_count + idx, not reduced to 32 bits
MathDst(idx) ==
    [hi |-> Wide(idx).hi + (4 + Wide(idx).lo) \div LIMB,
     lo |-> (4 + Wide(idx).lo) % LIMB]

MathSrc(a, idx) ==
    [hi |-> a.dst_count.hi + Wide(idx).hi
              + (4 + a.dst_count.lo + Wide(idx).lo) \div LIMB,
     lo |-> (4 + a.dst_count.lo + Wide(idx).lo) % LIMB]

\* the last call resolved an in-range index to the channel of the index rule,
\* outside the reserved channels 0..3, and to a channel that no in-range
\* index of the other kind resolves to
IndexRule ==
    (cpc \in {"acc", "crashed"} /\ InRange(anec, acc)) =>
        /\ ~acc.bailed
        /\ acc.kind = "dst" => acc.bdx = MathDst(acc.idx)
        /\ acc.kind = "src" => acc.bdx = MathSrc(anec, acc.idx)
        /\ ~(acc.bdx.hi = 0 /\ acc.bdx.lo < 4)
        /\ acc.kind = "src" =>
              \A i \in Indices :
                  ~DST_INDEX_CHECK(anec, i) => acc.bdx # dst_bdx(i)
        /\ acc.kind = "dst" =>
              \A j \in Indices :
                  ~SRC_INDEX_CHECK(anec, j) => acc.bdx # src_bdx(anec, j)

\* the destination and source channels of the descriptor lie in the table
CountsFit(a) ==
    /\ a.dst_count.hi = 0 /\ a.src_count.hi = 0
    /\ 4 + a.dst_count.lo + a.src_count.lo <= ANE_TILE_COUNT

\* C7 as stated: for every dst_count d and src_count s, destination index i
\* (0 <= i < d) resolves to absolute channel 4+i and source index j
\* (0 <= j < s) to 4+d+j in every accessor, no destination and source index
\* resolve to the same channel, and none resolves into 0..3.
C7_IndexRuleAnyCounts == IndexRule

\* C7, for the descriptors whose channels fit the table (4 + d + s <= 64):
\* destination index i (0 <= i < d) resolves to 4+i and source index j
\* (0 <= j < s) to 4+d+j in every accessor, no destination and source index
\* resolve to the same channel, and none resolves into 0..3.
C7_IndexRuleFitting == CountsFit(anec) => IndexRule

\* a tile send to the last source index of a descriptor with two destination
\* and two source channels
C7_Witness ==
    /\ cpc = "acc" /\ CountsFit(anec)
    /\ anec.dst_count = Wide(2) /\ anec.src_count = Wide(2)
    /\ acc.op = "__ane_tile_send" /\ acc.idx = 1 /\ acc.bdx = Wide(7)
    /\ acc.chan_wr = {7}

\* C8: with index-range checking enabled, every accessor (raw send/read,
\* channel pointer/size query, tiled send/read) called with a source index
\* >= src_count or a destination index >= dst_count, negative ones included,
\* returns cleanly without reading or writing a channel mapping or the
\* caller's buffer.
C8_CheckedOutOfRangeTouchesNothing ==
    (cpc \in {"acc", "crashed"} /\ check /\ acc.op # "none"
        /\ ~InRange(anec, acc)) =>
        /\ cpc = "acc"
        /\ acc.fault = {}
        /\ acc.chan_rd = {} /\ acc.chan_wr = {}
        /\ acc.user_rd = 0 /\ acc.user_wr = 0

\* the mappings other than the one at address a are as they were
OthersKept(a) ==
    /\ DOMAIN mem' = DOMAIN mem
    /\ \A b \in DOMAIN mem : b # a => mem'[b] = mem[b]

\* a step that is an in-range __ane_send writes the declared size of the
\* channel of the index rule into that channel's mapping and nothing else
SendFrame ==
    (acc'.op = "__ane_send" /\ InRange(anec, acc')) =>
        /\ InTable(MathSrc(anec, acc'.idx))
        /\ acc'.bdx = MathSrc(anec, acc'.idx)
        /\ acc'.fault = {}
        /\ acc'.user_rd = tile_size(anec, acc'.bdx.lo)
        /\ acc'.user_wr = 0 /\ acc'.chan_rd = {}
        /\ tile_size(anec, acc'.bdx.lo) > 0 =>
              /\ nn.chans[acc'.bdx.lo].map \in DOMAIN mem
              /\ nn.chans[acc'.bdx.lo].size = tile_size(anec, acc'.bdx.lo)
              /\ mem'[nn.chans[acc'.bdx.lo].map].src = "user"
              /\ mem'[nn.chans[acc'.bdx.lo].map].len = tile_size(anec, acc'.bdx.lo)
        /\ OthersKept(nn.chans[acc'.bdx.lo].map)
        /\ nn.btsp_chan.map # nn.chans[acc'.bdx.lo].map
        /\ nn' = nn /\ dev' = dev

\* a step that is an in-range __ane_read copies the declared size of the
\* channel of the index rule out of its mapping and changes no mapping
ReadFrame ==
    (acc'.op = "__ane_read" /\ InRange(anec, acc')) =>
        /\ InTable(MathDst(acc'.idx))
        /\ acc'.bdx = MathDst(acc'.idx)
        /\ acc'.fault = {}
        /\ acc'.user_wr = tile_size(anec, acc'.bdx.lo)
        /\ acc'.user_rd = 0 /\ acc'.chan_wr = {}
        /\ tile_size(anec, acc'.bdx.lo) > 0 =>
              /\ acc'.chan_rd = {acc'.bdx.lo}
              /\ nn.chans[acc'.bdx.lo].map \in DOMAIN mem
        /\ mem' = mem
        /\ nn' = nn /\ dev' = dev

\* C18 as stated: on a live channel set, __ane_send with an in-range source
\* index j writes exactly the declared byte size (tile size << 14) of channel
\* 4+dst_count+j into that channel's mapping and leaves every other channel's
\* mapping and the bootstrap buffer unchanged; __ane_read with an in-range
\* destination index i copies exactly the declared byte size of channel 4+i
\* out of that channel's mapping and modifies no mapping.
C18_RawFrameAnyCounts == [][SendFrame /\ ReadFrame]_vars

\* C18, for the descriptors whose channels fit the table (4 + d + s <= 64):
\* __ane_send with an in-range source index j writes exactly the declared
\* byte size of channel 4+dst_count+j into that channel's mapping and leaves
\* every other mapping and the bootstrap buffer unchanged; __ane_read with an
\* in-range destination index i copies exactly the declared byte size of
\* channel 4+i out of its mapping and modifies no mapping.
C18_RawFrameFitting == [][CountsFit(anec) => (SendFrame /\ ReadFrame)]_vars

\* a raw send to the last of two source channels, after a raw read of the
\* last of two destination channels or another call
C18_Witness ==
    /\ cpc = "acc" /\ CountsFit(anec)
    /\ anec.dst_count = Wide(2) /\ anec.src_count = Wide(2)
    /\ acc.op = "__ane_send" /\ acc.idx = 1 /\ acc.n = 2
    /\ mem[nn.chans[7].map].src = "user"
    /\ mem[nn.chans[7].map].len = TILE_SIZE
    /\ mem[nn.chans[6].map].src = "zero"
    /\ mem[nn.chans[0].map].src = "data"
    /\ mem[nn.btsp_chan.map].src = "data"

(***************************************************************************)
(* The process: heap, descriptors, device nodes, the model file.           *)
(* The world w of the operators below has a field heap next to dev and     *)
(* mem.  A failure plan says which call of one construction fails:         *)
(* mat the malloc (counted from mbase), at/oc the ane_bo_init, pread the   *)
(* second read of the model file.                                          *)
(***************************************************************************)
\* #define MAX_ANE_DEVICES 2, #define MAX_NODE_COUNT 64
MAX_ANE_DEVICES == 2

MAX_NODE_COUNT == 64

ENODEV == 19

HLogged(w, e) == [w EXCEPT !.heap.log = Append(@, e)]

\* the malloc calls made so far
Attempts(w) ==
    Cardinality({i \in DOMAIN w.heap.log : w.heap.log[i].op = "malloc"})

\* malloc / posix_memalign: a fresh object, or NULL
sys_malloc(w, kind, plan) ==
    IF plan.mat # 0 /\ Attempts(w) + 1 = plan.mbase + plan.mat
    THEN [w |-> HLogged(w, [op |-> "malloc", id |-> NULL, kind |-> kind,
                            ok |-> FALSE]),
          ptr |-> NULL]
    ELSE [w |-> HLogged([w EXCEPT !.heap.live = @ \cup {Attempts(w) + 1}],
                        [op |-> "malloc", id |-> Attempts(w) + 1, kind |-> kind,
                         ok |-> TRUE]),
          ptr |-> Attempts(w) + 1]

\* free(ptr): of a live object, of NULL, or of an object already freed
sys_free(w, ptr) ==
    IF ptr = NULL THEN w
    ELSE HLogged([w EXCEPT !.heap.live = @ \ {ptr}],
                 [op |-> "free", id |-> ptr, kind |-> "any",
                  ok |-> ptr \in w.heap.live])

\* open("/dev/accel/accel<i>", O_RDWR | O_CLOEXEC) of a node of the given
\* kind: the lowest free descriptor above stderr; the request records i
sys_open(w, kind, i) ==
    IF kind = "absent" THEN [w |-> w, fd |-> 0 - 1]
    ELSE [w |-> Logged([w EXCEPT !.dev.fds = @ \cup {LowestFree(w.dev.fds \cup {1, 2})}],
                       [op |-> "open", fd |-> LowestFree(w.dev.fds \cup {1, 2}),
                        id |-> i, ok |-> TRUE]),
          fd |-> LowestFree(w.dev.fds \cup {1, 2})]

\* close(fd): the device drops the buffers of the descriptor
sys_close(w, fd) ==
    IF fd \notin w.dev.fds
    THEN Logged(w, [op |-> "close", fd |-> fd, id |-> 0, ok |-> FALSE])
    ELSE Logged([w EXCEPT !.dev.fds = @ \ {fd},
                          !.dev.bos = {b \in @ : b.fd # fd}],
                [op |-> "close", fd |-> fd, id |-> 0, ok |-> TRUE])

(***************************************************************************)
(* is_ane_device, open_fd, ane_open, ane_close                             *)
(***************************************************************************)
Returned(w, ret) == [w |-> w, ret |-> ret, crash |-> FALSE]

Crashed(w) == [w |-> w, ret |-> 0, crash |-> TRUE]

\* the driver name DRM_IOCTL_VERSION reports for a node of the given kind
DriverName(kind) ==
    CASE kind = "ane" -> <<"a", "n", "e">>
      [] kind = "anex" -> <<"a", "n", "e", "x">>
      [] kind = "an" -> <<"a", "n">>
      [] kind = "noname" -> <<>>
      [] OTHER -> <<"x", "e">>

\* strcmp of two strings without the terminator: 0 when they are equal
strcmp(a, b) == IF a = b THEN 0 ELSE 1

\* is_ane_device after version.name = ane_malloc(version.name_len + 1)
\* returned m: the result is not checked, the second DRM_IOCTL_VERSION skips
\* a NULL buffer, and version.name[version.name_len] = '\0' writes through it
ane_device_named(m, kind) ==
    IF m.ptr = NULL THEN Crashed(m.w)
    ELSE Returned(sys_free(m.w, m.ptr),
                  IF strcmp(DriverName(kind), <<"a", "n", "e">>) # 0
                  THEN 0 - EINVAL ELSE 0)

\* a node that is no DRM device fails the first DRM_IOCTL_VERSION; a name of
\* length 0 is refused before the allocation
is_ane_device(w, fd, kind, plan) ==
    IF kind = "nodrm" \/ Len(DriverName(kind)) = 0 THEN Returned(w, 0 - EINVAL)
    ELSE ane_device_named(sys_malloc(w, "name", plan), kind)

\* a node that is not an ANE device left open
open_fd_checked_leak(r, fd) ==
    IF r.crash THEN r
    ELSE IF r.ret < 0 THEN Returned(r.w, 0 - EINVAL)
    ELSE Returned(r.w, fd)

\* open_fd after is_ane_device(fd) returned r
open_fd_checked(r, fd) ==
    IF r.crash THEN r
    ELSE IF r.ret < 0 THEN Returned(sys_close(r.w, fd), 0 - EINVAL)
    ELSE Returned(r.w, fd)

\* open_fd after open(node) returned o
open_fd_opened(o, kind, plan) ==
    IF o.fd < 0 THEN Returned(o.w, 0 - ENODEV)
    ELSE open_fd_checked(is_ane_device(o.w, o.fd, kind, plan), o.fd)

open_fd(w, kind, i, plan) == open_fd_opened(sys_open(w, kind, i), kind, plan)

\* the first node at or after i that exists, Len(nd) when there is none
NextNode(nd, i) ==
    IF \A j \in i..(Len(nd) - 1) : nd[j + 1] = "absent" THEN Len(nd)
    ELSE CHOOSE j \in i..(Len(nd) - 1) :
            nd[j + 1] # "absent" /\ \A k \in i..(j - 1) : nd[k + 1] = "absent"

\* the loop of ane_open over /dev/accel/accel<i>, nd[i + 1] being the kind of
\* accel<i>; the nodes past the ones of nd do not exist; open_fd fails on a
\* node that does not exist and changes nothing, a run of them is taken at once
RECURSIVE ane_open_loop(_, _, _, _, _, _)
RECURSIVE ane_open_step(_, _, _, _, _, _)
\* the device found is returned whatever its position among the ANE devices
ane_open_step_first(r, nd, i, found, dev_id, plan) ==
    IF r.crash THEN r
    ELSE IF r.ret < 0 THEN ane_open_loop(r.w, nd, i + 1, found, dev_id, plan)
    ELSE r

\* open_fd(node) returned r
ane_open_step(r, nd, i, found, dev_id, plan) ==
    IF r.crash THEN r
    ELSE IF r.ret < 0 THEN ane_open_loop(r.w, nd, i + 1, found, dev_id, plan)
    ELSE IF dev_id = found THEN r
    ELSE ane_open_loop(sys_close(r.w, r.ret), nd, i + 1, found + 1, dev_id, plan)

ane_open_loop(w, nd, i, found, dev_id, plan) ==
    IF i >= MAX_NODE_COUNT \/ i >= Len(nd) THEN Returned(w, 0 - ENODEV)
    ELSE IF nd[i + 1] = "absent"
         THEN ane_open_loop(w, nd, NextNode(nd, i + 1), found, dev_id, plan)
         ELSE ane_open_step(open_fd(w, nd[i + 1], i, plan), nd, i, found,
                            dev_id, plan)

ane_open(w, nd, dev_id, plan) ==
    IF dev_id < 0 \/ dev_id >= MAX_ANE_DEVICES THEN Returned(w, 0 - EINVAL)
    ELSE ane_open_loop(w, nd, 0, 0, dev_id, plan)

\* a close that is not made
ane_close_never(w, fd) == w

ane_close(w, fd) == IF fd < 0 THEN w ELSE sys_close(w, fd)

(***************************************************************************)
(* Device discovery: ane_open and ane_close called by a process, for the   *)
(* nodes accel0 .. accel64 of which a few exist, of every kind.            *)
(***************************************************************************)
\* the calls of ane_open made by the process
MaxOpens == 2

\* the malloc call of one ane_open that fails ranges over 1..MaxProbeFail
MaxProbeFail == 2

\* the nodes that may exist: the first two, the last one probed and the
\* first one that is not
CandNodes == {0, 1, MAX_NODE_COUNT - 1, MAX_NODE_COUNT}

\* what a node is: missing, not a DRM device, or a DRM device by its name
OpenKinds == {"absent", "nodrm", "ane", "anex", "noname"}

NoFail ==
    [at |-> 0, oc |-> "ok", mat |-> 0, mbase |-> 0, pread |-> FALSE,
     zero |-> "ptr"]

OpenPlans(w) ==
    {NoFail} \cup {[NoFail EXCEPT !.mat = k, !.mbase = Attempts(w)] :
                      k \in 1..MaxProbeFail}

InitOpen ==
    /\ TileIdle /\ AccIdle
    /\ \E k \in {c \in [CandNodes -> OpenKinds] :
                     c[MAX_NODE_COUNT] \in {"absent", "ane"}} :
          nodes = [i \in 1..(MAX_NODE_COUNT + 1) |->
                      IF (i - 1) \in CandNodes THEN k[i - 1] ELSE "absent"]
    /\ heap = [live |-> {}, log |-> <<>>]
    /\ dev = [fds |-> {}, bos |-> {}, maps |-> {}, log |-> <<>>]
    /\ mem = <<>>
    /\ bo = "none" /\ anec = "none" /\ mdata = "none" /\ nn = "none"
    /\ cret = "none"
    /\ file = "none" /\ model = "none"
    /\ jret = [fn |-> "none", dev_id |-> 0, plan |-> NoFail, ret |-> 0,
               n |-> 0, held |-> {}, log0 |-> 0]
    /\ cpc = "open"

\* fd = ane_open(dev_id); the caller holds the descriptors returned to it
Open ==
    /\ cpc = "open"
    /\ jret.n < MaxOpens
    /\ \E dev_id \in (0 - 1)..MAX_ANE_DEVICES :
        \E plan \in OpenPlans([dev |-> dev, mem |-> mem, heap |-> heap]) :
          \E r \in {ane_open([dev |-> dev, mem |-> mem, heap |-> heap], nodes,
                             dev_id, plan)} :
              /\ dev' = r.w.dev
              /\ mem' = r.w.mem
              /\ heap' = r.w.heap
              /\ jret' = [fn |-> "ane_open", dev_id |-> dev_id, plan |-> plan,
                          ret |-> r.ret, n |-> jret.n + 1,
                          held |-> IF r.crash \/ r.ret < 0 THEN jret.held
                                   ELSE jret.held \cup {r.ret},
                          log0 |-> Len(dev.log)]
              /\ cpc' = IF r.crash THEN "crashed" ELSE "open"
    /\ UNCHANGED <<bo, anec, mdata, nn, cret, nodes, file, model>>
    /\ UNCHANGED <<tvars, avars>>

\* ane_close(fd) of what the last ane_open returned, a descriptor or an error
Close ==
    /\ cpc = "open"
    /\ jret.fn = "ane_open"
    /\ \E w \in {ane_close([dev |-> dev, mem |-> mem, heap |-> heap], jret.ret)} :
          /\ dev' = w.dev
          /\ mem' = w.mem
          /\ heap' = w.heap
    /\ jret' = [jret EXCEPT !.fn = "ane_close", !.held = @ \ {jret.ret},
                            !.log0 = Len(dev.log)]
    /\ UNCHANGED <<bo, anec, mdata, nn, cret, nodes, file, model, cpc>>
    /\ UNCHANGED <<tvars, avars>>

NextOpen == Open \/ Close

SpecOpen == InitOpen /\ [][NextOpen]_vars

(***************************************************************************)
(* Claims on device discovery.                                             *)
(***************************************************************************)
\* the nodes ane_open probes that open and report the driver name "ane"
AneNodes ==
    {i \in 0..(MAX_NODE_COUNT - 1) :
        nodes[i + 1] \notin {"absent", "nodrm"}
            /\ DriverName(nodes[i + 1]) = <<"a", "n", "e">>}

\* the k-th of a set of numbers in ascending order, counted from 0
Kth(S, k) == CHOOSE x \in S : Cardinality({y \in S : y < x}) = k

\* the node an open descriptor was opened on
NodeOf(fd) ==
    dev.log[CHOOSE i \in Succeeded("open") :
                /\ dev.log[i].fd = fd
                /\ \A j \in Succeeded("open") : dev.log[j].fd = fd => j <= i].id

\* C11: for any set of existing nodes accelN and any assignment of driver
\* names, ane_open(dev_id) with 0 <= dev_id < 2 returns an open descriptor of
\* the (dev_id+1)-th node, in ascending N over 0..63, that opens and reports
\* the driver name "ane", and returns -ENODEV when there are fewer than
\* dev_id+1 such nodes.
C11_OpenFindsKthDevice ==
    (cpc = "open" /\ jret.fn = "ane_open" /\ jret.dev_id >= 0
        /\ jret.dev_id < MAX_ANE_DEVICES) =>
        IF Cardinality(AneNodes) > jret.dev_id
        THEN /\ jret.ret >= 0
             /\ jret.ret \in dev.fds
             /\ NodeOf(jret.ret) = Kth(AneNodes, jret.dev_id)
        ELSE jret.ret = 0 - ENODEV

\* only accel1 reports "ane" among the nodes probed (accel0 is another DRM
\* device, accel64 an ANE device that is not probed): ane_open(0) returned
\* accel1, and then ane_open(1) fails
C11_Witness ==
    /\ cpc = "open" /\ jret.fn = "ane_open" /\ jret.n = 2
    /\ nodes[1] = "anex" /\ nodes[2] = "ane" /\ nodes[MAX_NODE_COUNT] = "nodrm"
    /\ nodes[MAX_NODE_COUNT + 1] = "ane"
    /\ AneNodes = {1}
    /\ jret.dev_id = 1 /\ jret.ret = 0 - ENODEV
    /\ jret.held = {3} /\ NodeOf(3) = 1

\* the open and close requests of the last call
OpensOfCall == {i \in Succeeded("open") : i > jret.log0}

ClosesOfCall == {i \in Requests("close") : i > jret.log0}

\* C19: for any set of nodes and driver names and any dev_id, when ane_open
\* returns, every node it opened while probing has been closed except the one
\* whose descriptor it returns; when it fails no descriptor it opened is left
\* open, and for a dev_id out of range no node is probed at all.
C19_OpenLeaksNoDescriptor ==
    (cpc = "open" /\ jret.fn = "ane_open") =>
        /\ dev.fds = jret.held
        /\ Requests("close") = Succeeded("close")
        /\ Cardinality(OpensOfCall) =
              Cardinality(ClosesOfCall) + (IF jret.ret >= 0 THEN 1 ELSE 0)
        /\ \A i \in ClosesOfCall :
              \E j \in OpensOfCall : j < i /\ dev.log[j].fd = dev.log[i].fd
        /\ (jret.dev_id < 0 \/ jret.dev_id >= MAX_ANE_DEVICES) =>
              /\ jret.ret = 0 - EINVAL
              /\ Len(dev.log) = jret.log0
        /\ heap.live = {}

\* ane_open(1) went past a node that is no DRM device and an ANE device, which
\* it closed, and found no second device at the last node, which it closed
C19_Witness ==
    /\ cpc = "open" /\ jret.fn = "ane_open" /\ jret.dev_id = 1
    /\ nodes[1] = "nodrm" /\ nodes[2] = "ane" /\ nodes[MAX_NODE_COUNT] = "anex"
    /\ jret.ret = 0 - ENODEV
    /\ Cardinality(OpensOfCall) = 3 /\ Cardinality(ClosesOfCall) = 3
    /\ dev.fds = {}

(***************************************************************************)
(* ane_model_init, ane_model_free                                          *)
(***************************************************************************)
NoModel == [obj |-> NULL, data |-> NULL]

\* struct anec of the zeroed struct ane_model
ZeroAnec ==
    [size |-> 0, tsk_size |-> 0, td_count |-> 0, td_size |-> 0,
     src_count |-> [hi |-> 0, lo |-> 0], dst_count |-> [hi |-> 0, lo |-> 0],
     tiles |-> [bdx \in 0..(ANE_TILE_COUNT - 1) |-> 0],
     nchw |-> [bdx \in 0..(ANE_TILE_COUNT - 1) |->
                  [N |-> 0, C |-> 0, H |-> 0, W |-> 0, P |-> 0, R |-> 0]]]

\* the lengths of a model file: "empty"; "partial", it ends inside the header
\* after the sizes and counts; "nopayload", it ends before the payload;
\* "full"
ShortHeader == {"empty", "partial"}

ShortPayload == {"partial", "nopayload"}

\* what fread(anec, 1, sizeof(struct anec)) leaves in the zeroed descriptor
HeaderRead(f) ==
    IF f.len = "empty" THEN ZeroAnec
    ELSE IF f.len = "partial"
    THEN [f.anec EXCEPT !.tiles = ZeroAnec.tiles, !.nchw = ZeroAnec.nchw]
    ELSE f.anec

\* what fread(data, 1, anec->size) after the fseek leaves in the zeroed
\* payload buffer
PayloadRead(f) == IF f.len = "full" THEN f.mdata ELSE [w0 |-> <<0, 0, 0, 0>>]

\* a read that fails when it is short
ane_fread_strict(f) ==
    IF ~f.exists \/ f.len \in ShortHeader THEN 0 - EINVAL ELSE 0

\* ane_fread: -EINVAL when fopen fails, 0 after the fread, short or not
ane_fread(f) == IF ~f.exists THEN 0 - EINVAL ELSE 0

\* ane_pread: -EINVAL when fopen or fseek fails, 0 after the fread
ane_pread(f, plan) == IF plan.pread THEN 0 - EINVAL ELSE 0

\* posix_memalign(&ptr, TILE_SIZE, size): for size 0 it may succeed and leave
\* ptr NULL
sys_memalign(w, size, plan) ==
    IF size = 0 /\ plan.zero = "null"
    THEN [w |-> HLogged(w, [op |-> "malloc", id |-> NULL, kind |-> "data",
                            ok |-> FALSE]),
          ptr |-> NULL]
    ELSE sys_malloc(w, "data", plan)

\* ane_model_init after model->data = ane_zmemalign(anec->size) returned d
model_init_data(d, obj, f, plan) ==
    IF d.ptr = NULL THEN [w |-> sys_free(d.w, obj), model |-> NoModel]
    ELSE IF ane_pread(f, plan) < 0
    THEN [w |-> sys_free(sys_free(d.w, d.ptr), obj), model |-> NoModel]
    ELSE [w |-> d.w,
          model |-> [obj |-> obj, data |-> d.ptr, anec |-> HeaderRead(f),
                     mdata |-> PayloadRead(f)]]

\* ane_model_init after model = ane_zmalloc(...) returned m
model_init_alloc(m, f, plan) ==
    IF m.ptr = NULL THEN [w |-> m.w, model |-> NoModel]
    ELSE IF ane_fread(f) < 0 THEN [w |-> sys_free(m.w, m.ptr), model |-> NoModel]
    ELSE model_init_data(sys_memalign(m.w, HeaderRead(f).size, plan), m.ptr, f,
                         plan)

ane_model_init(w, f, plan) == model_init_alloc(sys_malloc(w, "model", plan), f, plan)

ane_model_free(w, m) == sys_free(sys_free(w, m.data), m.obj)

(***************************************************************************)
(* The loader: ane_model_init and ane_model_free on model files that are   *)
(* missing, truncated at several places, or whole.                         *)
(***************************************************************************)
\* the calls of ane_model_init made by the process
MaxLoads == 2

\* the malloc call of one ane_model_init that fails ranges over 1..MaxLoadFail
MaxLoadFail == 2

\* the headers of the model files: a payload of 16 bytes or an empty one
LoadDescs ==
    {[ZeroAnec EXCEPT !.size = sz, !.tsk_size = 12, !.td_count = 3,
                      !.td_size = 16,
                      !.src_count = [hi |-> 0, lo |-> 1],
                      !.dst_count = [hi |-> 0, lo |-> 1],
                      !.tiles = [bdx \in 0..(ANE_TILE_COUNT - 1) |->
                                    IF bdx \in {0, 4, 5} THEN 1 ELSE 0]] :
        sz \in {0, 16}}

LoadPlans(w) ==
    {NoFail, [NoFail EXCEPT !.pread = TRUE], [NoFail EXCEPT !.zero = "null"]}
        \cup {[NoFail EXCEPT !.mat = k, !.mbase = Attempts(w)] :
                k \in 1..MaxLoadFail}

InitLoad ==
    /\ TileIdle /\ AccIdle
    /\ file \in [exists : BOOLEAN,
                  len : {"empty", "partial", "nopayload", "full"},
                  anec : LoadDescs, mdata : {[w0 |-> <<120, 86, 52, 18>>]}]
    /\ heap = [live |-> {}, log |-> <<>>]
    /\ dev = [fds |-> {}, bos |-> {}, maps |-> {}, log |-> <<>>]
    /\ mem = <<>>
    /\ bo = "none" /\ anec = "none" /\ mdata = "none" /\ nn = "none"
    /\ cret = "none" /\ nodes = "none"
    /\ model = NoModel
    /\ jret = [fn |-> "none", plan |-> NoFail, n |-> 0, hlog0 |-> 0]
    /\ cpc = "load"

\* model = ane_model_init(path)
ModelInit ==
    /\ cpc = "load"
    /\ model.obj = NULL
    /\ jret.n < MaxLoads
    /\ \E plan \in LoadPlans([dev |-> dev, mem |-> mem, heap |-> heap]) :
        \E r \in {ane_model_init([dev |-> dev, mem |-> mem, heap |-> heap],
                                 file, plan)} :
            /\ heap' = r.w.heap
            /\ model' = r.model
            /\ jret' = [fn |-> "ane_model_init", plan |-> plan,
                        n |-> jret.n + 1, hlog0 |-> Len(heap.log)]
    /\ UNCHANGED <<dev, mem, bo, anec, mdata, nn, cret, cpc, nodes, file>>
    /\ UNCHANGED <<tvars, avars>>

\* ane_model_free(model)
ModelFree ==
    /\ cpc = "load"
    /\ model.obj # NULL
    /\ \E w \in {ane_model_free([dev |-> dev, mem |-> mem, heap |-> heap], model)} :
          heap' = w.heap
    /\ model' = NoModel
    /\ jret' = [jret EXCEPT !.fn = "ane_model_free", !.hlog0 = Len(heap.log)]
    /\ UNCHANGED <<dev, mem, bo, anec, mdata, nn, cret, cpc, nodes, file>>
    /\ UNCHANGED <<tvars, avars>>

NextLoad == ModelInit \/ ModelFree

SpecLoad == InitLoad /\ [][NextLoad]_vars

(***************************************************************************)
(* Claims on the loader.                                                   *)
(***************************************************************************)
\* an allocation of the last call yielded no buffer
AllocFailedInCall ==
    \E i \in DOMAIN heap.log :
        i > jret.hlog0 /\ heap.log[i].op = "malloc" /\ ~heap.log[i].ok

\* the model file is shorter than the header and the payload it announces
FileIsShort ==
    \/ file.len \in ShortHeader
    \/ file.len \in ShortPayload /\ HeaderRead(file).size > 0

\* C16: whenever the model file can be opened, the seek to the payload
\* succeeds and the buffers can be allocated, ane_model_init returns a Model,
\* also when fewer bytes than requested were read for the header or the
\* payload (the Model then holds what was read, zero-filled); it returns NULL
\* only when the open or seek or an allocation failed, and then the partially
\* built Model has been freed.
C16_ShortReadsNotFatal ==
    (cpc = "load" /\ jret.fn = "ane_model_init") =>
        /\ (model.obj = NULL) <=>
              (~file.exists \/ jret.plan.pread \/ AllocFailedInCall)
        /\ model.obj = NULL =>
              /\ heap.live = {}
              /\ \A i \in DOMAIN heap.log : heap.log[i].op = "free" => heap.log[i].ok
        /\ model.obj # NULL =>
              /\ heap.live = {model.obj, model.data}
              /\ model.obj # model.data
              /\ model.anec = HeaderRead(file)
              /\ model.mdata = PayloadRead(file)

\* a Model returned for a file that ends before its payload: the payload
\* buffer is zero
C16_Witness ==
    /\ cpc = "load" /\ jret.fn = "ane_model_init"
    /\ file.exists /\ file.len = "nopayload" /\ FileIsShort
    /\ model.obj # NULL
    /\ model.anec = file.anec /\ model.anec.size = 16
    /\ model.mdata # file.mdata

(***************************************************************************)
(* __ane_init_from_model, __ane_init, __ane_free_from_model, __ane_free    *)
(***************************************************************************)
NoNn == [obj |-> NULL]

\* nn after ane_zmalloc, nn->model = model, nn->ane.fd = fd
NewNn(fd, m, ptr) ==
    [chans |-> [bdx \in 0..(ANE_TILE_COUNT - 1) |-> ZeroBo],
     btsp_chan |-> ZeroBo, fd |-> fd, model |-> m, obj |-> ptr]

Built(w, n, fault) == [w |-> w, nn |-> n, crash |-> FALSE, fault |-> fault]

Died(w) == [w |-> w, nn |-> NoNn, crash |-> TRUE, fault |-> {}]

\* __ane_init_from_model after ane_chan_init(&nn->ane, nn) returned r
from_model_chan(r, ptr, fd) ==
    IF r.err < 0 THEN Built(ane_close(sys_free(r.w, ptr), fd), NoNn, {})
    ELSE Built(r.w, r.nn, r.fault)

\* __ane_init_from_model after nn = ane_zmalloc(...) returned a
from_model_alloc(a, m, fd, plan) ==
    IF a.ptr = NULL THEN Built(ane_close(a.w, fd), NoNn, {})
    ELSE from_model_chan(
             ane_chan_init(a.w, NewNn(fd, m, a.ptr), m.anec, m.mdata, plan),
             a.ptr, fd)

\* __ane_init_from_model after fd = ane_open(dev_id) returned o
from_model_opened(o, m, plan) ==
    IF o.crash THEN Died(o.w)
    ELSE IF o.ret < 0 THEN Built(o.w, NoNn, {})
    ELSE from_model_alloc(sys_malloc(o.w, "nn", plan), m, o.ret, plan)

__ane_init_from_model(w, m, nd, dev_id, plan) ==
    from_model_opened(ane_open(w, nd, dev_id, plan), m, plan)

\* __ane_init after nn = __ane_init_from_model(model, dev_id) returned r
init_built(r, m) ==
    IF r.crash THEN r
    ELSE IF r.nn.obj = NULL THEN Built(ane_model_free(r.w, m), NoNn, {})
    ELSE r

\* __ane_init after model = ane_model_init(path) returned l
init_loaded(l, nd, dev_id, plan) ==
    IF l.model.obj = NULL THEN Built(l.w, NoNn, {})
    ELSE init_built(__ane_init_from_model(l.w, l.model, nd, dev_id, plan), l.model)

__ane_init(w, f, nd, dev_id, plan) ==
    init_loaded(ane_model_init(w, f, plan), nd, dev_id, plan)

\* the device closed before the channel set is released
__ane_free_from_model_close_first(w, n) ==
    sys_free(ane_chan_free(ane_close(w, n.fd), n).w, n.obj)

\* the model freed with the instance attached to it
__ane_free_from_model_owning(w, n) ==
    sys_free(ane_model_free(ane_close(ane_chan_free(w, n).w, n.fd), n.model),
             n.obj)

__ane_free_from_model(w, n) ==
    sys_free(ane_close(ane_chan_free(w, n).w, n.fd), n.obj)

__ane_free(w, n) ==
    sys_free(ane_model_free(ane_close(ane_chan_free(w, n).w, n.fd), n.model),
             n.obj)

(***************************************************************************)
(* Construction and destruction of a job instance in a process that holds  *)
(* a loaded model, for every arrangement of the first device nodes, every  *)
(* dev_id, and one failure injected at every malloc, every ane_bo_init and *)
(* the read of the model file.                                             *)
(***************************************************************************)
\* the device nodes that exist
MaxNodes == 2

\* the malloc call of a construction that fails ranges over 1..MaxMallocAt
MaxMallocAt == 5

NodeKinds == {"absent", "nodrm", "other", "ane"}

\* descriptors: channels 0, 4 and maybe 5; an empty task descriptor, whose
\* bootstrap buffer cannot be allocated; no channel 0 for the payload
JobDescs ==
    {[size |-> 16, tsk_size |-> 12, td_count |-> 3, td_size |-> td,
      src_count |-> Wide(1), dst_count |-> Wide(1),
      tiles |-> [bdx \in 0..(ANE_TILE_COUNT - 1) |->
                    IF bdx \in S THEN 1 ELSE 0],
      nchw |-> [bdx \in 0..(ANE_TILE_COUNT - 1) |->
                    IF bdx \in S THEN ChanShape ELSE ZeroShape]] :
        td \in {0, 16}, S \in {{0, 4, 5}, {0, 4}, {4, 5}}}

JobPlans(w) ==
    {NoFail, [NoFail EXCEPT !.pread = TRUE]}
        \cup {[NoFail EXCEPT !.at = k, !.oc = oc] :
                k \in 1..MaxFailAt, oc \in {"alloc_fail", "map_fail"}}
        \cup {[NoFail EXCEPT !.mat = k, !.mbase = Attempts(w)] : k \in 1..MaxMallocAt}

\* the process holds a model loaded earlier: objects 1 (struct ane_model) and
\* 2 (its data)
InitJob ==
    /\ TileIdle /\ AccIdle
    /\ nodes \in [1..MaxNodes -> NodeKinds]
    /\ anec \in JobDescs
    /\ mdata = [w0 |-> <<120, 86, 52, 18>>]
    /\ model = [obj |-> 1, data |-> 2, anec |-> anec, mdata |-> mdata]
    /\ \E e \in BOOLEAN :
          file = [exists |-> e, len |-> "full", anec |-> anec, mdata |-> mdata]
    /\ heap = [live |-> {1, 2},
               log |-> <<[op |-> "malloc", id |-> 1, kind |-> "model", ok |-> TRUE],
                         [op |-> "malloc", id |-> 2, kind |-> "data", ok |-> TRUE]>>]
    /\ dev = [fds |-> {}, bos |-> {}, maps |-> {}, log |-> <<>>]
    /\ mem = <<>>
    /\ bo = "none"
    /\ nn = NoNn
    /\ cret = "none"
    /\ jret = [fn |-> "none", dev_id |-> 0, plan |-> NoFail, ret |-> NULL]
    /\ cpc = "job_new"

\* the call returns r, or an undefined access of it ends the process
JobStep(fn, dev_id, plan, r) ==
    /\ dev' = r.w.dev
    /\ mem' = r.w.mem
    /\ heap' = r.w.heap
    /\ nn' = r.nn
    /\ jret' = [fn |-> fn, dev_id |-> dev_id, plan |-> plan, ret |-> r.nn.obj]
    /\ \E ub \in (IF r.crash \/ "null_write" \in r.fault THEN {"crash"}
                  ELSE IF r.fault # {} THEN {"crash", "continue"}
                  ELSE {"continue"}) :
          cpc' = IF ub = "crash" THEN "crashed"
                 ELSE IF r.nn.obj = NULL THEN "job_failed" ELSE "job_live"
    /\ UNCHANGED <<bo, anec, mdata, cret, nodes, file, model>>
    /\ UNCHANGED <<tvars, avars>>

InitFromModel ==
    /\ cpc = "job_new"
    /\ \E dev_id \in (0 - 1)..MAX_ANE_DEVICES :
        \E plan \in JobPlans([dev |-> dev, mem |-> mem, heap |-> heap]) :
          \E r \in {__ane_init_from_model([dev |-> dev, mem |-> mem, heap |-> heap],
                                          model, nodes, dev_id, plan)} :
              JobStep("__ane_init_from_model", dev_id, plan, r)

InitPath ==
    /\ cpc = "job_new"
    /\ \E dev_id \in (0 - 1)..MAX_ANE_DEVICES :
        \E plan \in JobPlans([dev |-> dev, mem |-> mem, heap |-> heap]) :
          \E r \in {__ane_init([dev |-> dev, mem |-> mem, heap |-> heap],
                               file, nodes, dev_id, plan)} :
              JobStep("__ane_init", dev_id, plan, r)

\* the instance is gone after the call
JobFreed(fn, w) ==
    /\ dev' = w.dev
    /\ mem' = w.mem
    /\ heap' = w.heap
    /\ nn' = NoNn
    /\ jret' = [jret EXCEPT !.fn = fn, !.ret = NULL]
    /\ cpc' = "job_freed"
    /\ UNCHANGED <<bo, anec, mdata, cret, nodes, file, model>>
    /\ UNCHANGED <<tvars, avars>>

FreeFromModel ==
    /\ cpc = "job_live" /\ jret.fn = "__ane_init_from_model"
    /\ \E w \in {__ane_free_from_model([dev |-> dev, mem |-> mem, heap |-> heap], nn)} :
          JobFreed("__ane_free_from_model", w)

Free ==
    /\ cpc = "job_live" /\ jret.fn = "__ane_init"
    /\ \E w \in {__ane_free([dev |-> dev, mem |-> mem, heap |-> heap], nn)} :
          JobFreed("__ane_free", w)

NextJob == InitFromModel \/ InitPath \/ FreeFromModel \/ Free

SpecJob == InitJob /\ [][NextJob]_vars

(***************************************************************************)
(* Claims on construction.                                                 *)
(***************************************************************************)
\* ane_open(dev_id) has no device to return: dev_id is out of range or there
\* are not dev_id + 1 ANE devices among the nodes
OpenFails ==
    \/ jret.dev_id < 0 \/ jret.dev_id >= MAX_ANE_DEVICES
    \/ Cardinality({i \in DOMAIN nodes : nodes[i] = "ane"}) <= jret.dev_id

\* the allocation of the job instance failed
NnAllocFailed ==
    \E i \in DOMAIN heap.log :
        heap.log[i].op = "malloc" /\ heap.log[i].kind = "nn" /\ ~heap.log[i].ok

\* an allocate or map step of the channel set failed
BoFailed ==
    \E i \in DOMAIN dev.log : dev.log[i].op \in {"bo_init", "mmap"} /\ ~dev.log[i].ok

\* the calls of one kind on the heap
HeapCalls(op) == {i \in DOMAIN heap.log : heap.log[i].op = op}

Allocs == Succeeded("bo_init")

\* the free requests for the buffer of allocation i: those for its handle on
\* its descriptor, up to the next allocation that returns the same handle
FreeOf(i) ==
    {j \in Requests("bo_free") :
        /\ j > i
        /\ dev.log[j].fd = dev.log[i].fd /\ dev.log[j].id = dev.log[i].id
        /\ \A k \in Allocs :
              (i < k /\ k < j) =>
                  ~(dev.log[k].fd = dev.log[i].fd /\ dev.log[k].id = dev.log[i].id)}

\* allocation i was mapped: ane_bo_init makes the mmap right after it
Mapped(i) ==
    /\ i + 1 \in DOMAIN dev.log
    /\ dev.log[i + 1].op = "mmap" /\ dev.log[i + 1].ok

\* the unmap requests for the mapping of allocation i
UnmapOf(i) ==
    {m \in Requests("munmap") :
        /\ Mapped(i) /\ m > i + 1
        /\ dev.log[m].id = dev.log[i + 1].id
        /\ \A k \in Succeeded("mmap") :
              (i + 1 < k /\ k < m) => dev.log[k].id # dev.log[i + 1].id}

\* the closes of the descriptor of allocation i made after it
CloseOf(i) ==
    {c \in Succeeded("close") : c > i /\ dev.log[c].fd = dev.log[i].fd}

\* C17: in every execution of init, rollback and job-instance free, every
\* free, unmap and close request addresses something live (none is repeated),
\* each device allocation is freed at most once and, once the instance is
\* rolled back or freed, exactly once; the unmap of a mapped buffer comes
\* before its free request and the free request before the close of the
\* descriptor; the release of a BO that is already released (the bootstrap
\* BO whose mapping failed, in the rollback) makes no further request.
C17_ReleaseOrder ==
    /\ Requests("bo_free") = Succeeded("bo_free")
    /\ Requests("munmap") = Succeeded("munmap")
    /\ Requests("close") = Succeeded("close")
    /\ \A j \in Requests("bo_free") : \E i \in Allocs : j \in FreeOf(i)
    /\ \A m \in Requests("munmap") : \E i \in Allocs : m \in UnmapOf(i)
    /\ \A i \in Allocs :
          /\ Cardinality(FreeOf(i)) <= 1
          /\ Cardinality(UnmapOf(i)) <= 1
          /\ UnmapOf(i) # {} => FreeOf(i) # {}
          /\ \A j \in FreeOf(i) :
                /\ Mapped(i) => \E m \in UnmapOf(i) : m < j
                /\ \A c \in CloseOf(i) : j < c
    /\ cpc \in {"job_failed", "job_freed", "failed", "freed", "refreed"} =>
          /\ \A i \in Allocs :
                /\ Cardinality(FreeOf(i)) = 1
                /\ Mapped(i) => Cardinality(UnmapOf(i)) = 1
          /\ dev.bos = {} /\ dev.maps = {}
    /\ cpc \in {"job_failed", "job_freed"} =>
          /\ \A i \in Allocs : CloseOf(i) # {}
          /\ dev.fds = {}

\* a job instance with three channels and the bootstrap buffer, freed: four
\* unmaps, four free requests, then the close
C17_Witness ==
    /\ cpc = "job_freed" /\ jret.fn = "__ane_free_from_model"
    /\ Cardinality(Allocs) = 4
    /\ Cardinality(Requests("munmap")) = 4
    /\ Cardinality(Requests("bo_free")) = 4
    /\ dev.log[Len(dev.log)].op = "close"

(***************************************************************************)
(* Several job instances attached to one loaded model, their calls         *)
(* interleaved in every order.  nn is here the table of the instances.     *)
(* The log of device requests is not kept in this scenario.                *)
(***************************************************************************)
\* the job instances attached to the model
MaxInst == 2

\* the send, read and exec calls made on one instance
MaxOps == 2

Inst == 1..MaxInst

\* the descriptor of the shared model: channels 0, 4 and 5
ShareDesc ==
    [ZeroAnec EXCEPT !.size = 16, !.tsk_size = 12, !.td_count = 3,
                     !.td_size = 16,
                     !.src_count = Wide(1), !.dst_count = Wide(1),
                     !.tiles = [bdx \in 0..(ANE_TILE_COUNT - 1) |->
                                   IF bdx \in {0, 4, 5} THEN 1 ELSE 0],
                     !.nchw = [bdx \in 0..(ANE_TILE_COUNT - 1) |->
                                  IF bdx \in {0, 4, 5} THEN ChanShape
                                  ELSE ZeroShape]]

SharePlans == {NoFail, [NoFail EXCEPT !.at = 2, !.oc = "map_fail"]}

\* the model as ane_model_init returned it: objects 1 and 2 of the heap
LoadedModel ==
    [obj |-> 1, data |-> 2, anec |-> ShareDesc,
     mdata |-> [w0 |-> <<120, 86, 52, 18>>]]

InitShare ==
    /\ TileIdle /\ AccIdle
    /\ nodes = <<"ane", "ane">>
    /\ anec = ShareDesc
    /\ mdata = [w0 |-> <<120, 86, 52, 18>>]
    /\ model = LoadedModel
    /\ file = "none"
    /\ heap = [live |-> {1, 2},
               log |-> <<[op |-> "malloc", id |-> 1, kind |-> "model", ok |-> TRUE],
                         [op |-> "malloc", id |-> 2, kind |-> "data", ok |-> TRUE]>>]
    /\ dev = [fds |-> {}, bos |-> {}, maps |-> {}, log |-> <<>>]
    /\ mem = <<>>
    /\ bo = "none"
    /\ nn = [i \in Inst |-> NoNn]
    /\ cret = "none"
    /\ jret = [st |-> [i \in Inst |-> "new"], ops |-> [i \in Inst |-> 0],
               owning |-> FALSE]
    /\ cpc = "share"

\* the model's objects are live on the heap
ModelValid == {model.obj, model.data} \subseteq heap.live

\* a call that reads the model goes on; one that reads a model that was
\* freed either goes unnoticed or ends the process
ShareStep(w) ==
    /\ dev' = [w.dev EXCEPT !.log = <<>>]
    /\ mem' = w.mem
    /\ heap' = w.heap
    /\ \E ub \in (IF ModelValid THEN {"continue"} ELSE {"continue", "crash"}) :
          cpc' = IF ub = "crash" THEN "crashed" ELSE "share"
    /\ UNCHANGED <<bo, anec, mdata, cret, nodes, file, model>>
    /\ UNCHANGED <<tvars, avars>>

ShareWorld == [dev |-> dev, mem |-> mem, heap |-> heap]

\* nn = __ane_init_from_model(model, 0): every instance on the first device
ShareInit ==
    /\ cpc = "share"
    /\ \E i \in Inst, plan \in SharePlans :
        /\ jret.st[i] = "new"
        /\ \E r \in {__ane_init_from_model(ShareWorld, model, nodes, 0, plan)} :
            /\ nn' = [nn EXCEPT ![i] = r.nn]
            /\ jret' = [jret EXCEPT !.st[i] = IF r.nn.obj = NULL THEN "failed"
                                              ELSE "live"]
            /\ ShareStep(r.w)

\* __ane_send(nn, from, 0)
ShareSend ==
    /\ cpc = "share"
    /\ \E i \in Inst :
        /\ jret.st[i] = "live" /\ jret.ops[i] < MaxOps
        /\ \E r \in {__ane_send(ShareWorld, nn[i], nn[i].model.anec, FALSE, 0)} :
            /\ nn' = nn
            /\ jret' = [jret EXCEPT !.ops[i] = @ + 1]
            /\ ShareStep(r.w)

\* __ane_read(nn, to, 0)
ShareRead ==
    /\ cpc = "share"
    /\ \E i \in Inst :
        /\ jret.st[i] = "live" /\ jret.ops[i] < MaxOps
        /\ \E r \in {__ane_read(ShareWorld, nn[i], nn[i].model.anec, FALSE, 0)} :
            /\ nn' = nn
            /\ jret' = [jret EXCEPT !.ops[i] = @ + 1]
            /\ ShareStep(r.w)

\* ane_exec(nn)
ShareExec ==
    /\ cpc = "share"
    /\ \E i \in Inst, status \in {0, 0 - 1} :
        /\ jret.st[i] = "live" /\ jret.ops[i] < MaxOps
        /\ \E r \in {ane_exec(ShareWorld, nn[i], nn[i].model.anec, status)} :
            /\ nn' = nn
            /\ jret' = [jret EXCEPT !.ops[i] = @ + 1]
            /\ ShareStep(r.w)

\* __ane_free_from_model(nn)
ShareFreeFromModel ==
    /\ cpc = "share"
    /\ \E i \in Inst :
        /\ jret.st[i] = "live"
        /\ \E w \in {__ane_free_from_model(ShareWorld, nn[i])} :
            /\ nn' = [nn EXCEPT ![i] = NoNn]
            /\ jret' = [jret EXCEPT !.st[i] = "freed"]
            /\ ShareStep(w)

\* __ane_free(nn), which frees nn->model with the instance
ShareFree ==
    /\ cpc = "share"
    /\ \E i \in Inst :
        /\ jret.st[i] = "live"
        /\ \E w \in {__ane_free(ShareWorld, nn[i])} :
            /\ nn' = [nn EXCEPT ![i] = NoNn]
            /\ jret' = [jret EXCEPT !.st[i] = "freed", !.owning = TRUE]
            /\ ShareStep(w)

NextShare ==
    \/ ShareInit \/ ShareSend \/ ShareRead \/ ShareExec
    \/ ShareFreeFromModel \/ ShareFree

SpecShare == InitShare /\ [][NextShare]_vars

(***************************************************************************)
(* Claims on model sharing.                                                *)
(***************************************************************************)
LiveInst == {i \in Inst : jret.st[i] = "live"}

\* the channels of the shared descriptor
SharedChans == {bdx \in 0..(ANE_TILE_COUNT - 1) : ShareDesc.tiles[bdx] # 0}

\* the model is as loaded and valid, it was never freed, and the device and
\* the heap hold exactly the descriptors, buffers, mappings and objects of
\* the live instances: a free released all of its instance and nothing else
ModelShared ==
    /\ model = LoadedModel
    /\ ModelValid
    /\ \A k \in DOMAIN heap.log : heap.log[k].op = "free" => heap.log[k].ok
    /\ \A k \in DOMAIN heap.log :
          heap.log[k].op = "free" => heap.log[k].id \notin {model.obj, model.data}
    /\ \A i \in LiveInst :
          /\ nn[i].model = LoadedModel
          /\ nn[i].fd \in dev.fds
          /\ BoLive(nn[i].btsp_chan, nn[i].fd)
          /\ nn[i].btsp_chan.map \in DOMAIN mem
          /\ \A bdx \in SharedChans :
                /\ BoLive(nn[i].chans[bdx], nn[i].fd)
                /\ nn[i].chans[bdx].map \in DOMAIN mem
    /\ \A i \in LiveInst, j \in LiveInst : i # j => nn[i].fd # nn[j].fd
    /\ dev.fds = {nn[i].fd : i \in LiveInst}
    /\ Cardinality(dev.bos) = Cardinality(LiveInst) * (Cardinality(SharedChans) + 1)
    /\ Cardinality(dev.maps) = Cardinality(LiveInst) * (Cardinality(SharedChans) + 1)
    /\ heap.live = {model.obj, model.data} \cup {nn[i].obj : i \in LiveInst}

\* C13 as stated: for any number of job instances bound to the same model
\* and any interleaving of their init, send, read, exec and free operations,
\* no operation modifies the model, and freeing an instance releases only
\* that instance's BOs and device handle, so the shared model stays valid for
\* the others and is never freed more than once.
C13_SharedModelAnyFree ==
    /\ LiveInst # {} => ModelShared
    /\ \A k \in DOMAIN heap.log : heap.log[k].op = "free" => heap.log[k].ok

\* C13, for instances freed with __ane_free_from_model: for any number of
\* job instances bound to the same model and any interleaving of their init,
\* send, read, exec and free operations, no operation modifies the model,
\* and freeing an instance releases only that instance's BOs and device
\* handle; the model stays valid and is not freed.
C13_SharedModelAttached == ~jret.owning => ModelShared

\* one instance initialised, used and freed while the other, attached to the
\* same model on the same device, is live and has been used
C13_Witness ==
    /\ cpc = "share" /\ ~jret.owning
    /\ jret.st[1] = "freed" /\ jret.ops[1] = 1
    /\ jret.st[2] = "live" /\ jret.ops[2] = 1
    /\ ModelValid
    /\ Cardinality(dev.bos) = 4
    /\ mem[nn[2].chans[5].map].src = "user"

====
